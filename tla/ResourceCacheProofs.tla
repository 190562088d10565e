------------------------ MODULE ResourceCacheProofs ------------------------
EXTENDS ResourceCache, FiniteSetTheorems, TLAPS

\* What holds of the cache, of each context and of the coordinator.  Together
\* with the types, the three are inductive.
CacheInv ==
    /\ PinsAccounted
    /\ UsersAccounted
    /\ PinnedIsLoaded
    /\ ExclusiveUse
    /\ SingleLoader

\* A context owns a pin for every claim, an operator stays blocked until its
\* whole group is done, and a context that has not started, is over or is in
\* the loop that prepares or unpins has no session.
ContextOK(c) ==
    /\ run[c] # "DONE" /\ ~InLoop("UNPIN", c) =>
           \A k \in Key : Cardinality(Claims(c, k)) <= ownedPins[c][k]
    /\ \A f \in Field :
           phase[c][f] # "DONE" => phase[c][OperatorOf[f]] = "BLOCKED"
    /\ run[c] = "NEW" => \A s \in Step : phase[c][s] = "BLOCKED"
    /\ run[c] \in {"NEW", "QUEUED", "DONE"} => \A s \in Step : ~Live(c, s)
    /\ run[c] \in {"NEW", "DONE"} => \A k \in Key : ownedPins[c][k] = 0
    /\ InLoop("PREPARE", c) => run[c] \in {"QUEUED", "RUNNING"}
    /\ InLoop("SETTLE", c) => run[c] \in {"RUNNING", "PAUSED", "DRAINING"}
    /\ InLoop("UNPIN", c) => run[c] \in {"RUNNING", "DRAINING"}
    /\ InLoop("PREPARE", c) \/ InLoop("UNPIN", c) => \A s \in Step : ~Live(c, s)

\* A teardown is what the coordinator waits for, and the resource manager
\* closes only after every context.
CoordinatorOK ==
    /\ \A k \in Key : state[k] = "UNLOADING" <=> InLoop("TEARDOWN", k)
    /\ engine \in {"CLOSING", "CLOSED"} =>
           /\ \A c \in Context : run[c] \in {"NEW", "DONE"}
           /\ task \in {"IDLE", "TEARDOWN"}

IInv ==
    /\ TypeOK
    /\ CacheInv
    /\ \A c \in Context : ContextOK(c)
    /\ CoordinatorOK
-----------------------------------------------------------------------------
LEMMA OneLess ==
    ASSUME NEW S, NEW x \in S, IsFiniteSet(S)
    PROVE  Cardinality(S \ {x}) = Cardinality(S) - 1
BY FS_RemoveElement

LEMMA OneMore ==
    ASSUME NEW S, NEW x, x \notin S, IsFiniteSet(S)
    PROVE  Cardinality(S \cup {x}) = Cardinality(S) + 1
BY FS_AddElement

LEMMA HoldersFinite ==
    \A k \in Key : IsFiniteSet(Holders(k))
<1> SUFFICES ASSUME NEW k \in Key PROVE IsFiniteSet(Holders(k))
    OBVIOUS
<1>1. IsFiniteSet(Context \X Operator)
    BY ConstantsAssumption, FS_Product
<1> QED
    BY <1>1, FS_Subset DEF Holders

LEMMA ClaimsFinite ==
    \A c \in Context, k \in Key : IsFiniteSet(Claims(c, k))
<1> SUFFICES ASSUME NEW c \in Context, NEW k \in Key
             PROVE  IsFiniteSet(Claims(c, k))
    OBVIOUS
<1>1. Claims(c, k) \in SUBSET Operator
    BY DEF Claims
<1> QED
    BY <1>1, FS_Subset, ConstantsAssumption

LEMMA TokensFinite ==
    ownedPins \in [Context -> [Key -> Nat]]
        => \A j \in Key : IsFiniteSet(PinTokens(j))
<1> SUFFICES ASSUME ownedPins \in [Context -> [Key -> Nat]], NEW k \in Key
             PROVE  IsFiniteSet(PinTokens(k))
    OBVIOUS
<1> DEFINE T == {{c} \X (1 .. ownedPins[c][k]) : c \in Context}
           f == [c \in Context |-> {c} \X (1 .. ownedPins[c][k])]
<1>1. f \in Surjection(Context, T)
    BY DEF Surjection
<1>2. IsFiniteSet(T)
    BY <1>1, FS_Surjection, ConstantsAssumption
<1>3. \A c \in Context : IsFiniteSet({c} \X (1 .. ownedPins[c][k]))
    <2> TAKE c \in Context
    <2>1. IsFiniteSet(1 .. ownedPins[c][k])
        BY FS_Interval
    <2>2. IsFiniteSet({c})
        BY FS_Singleton
    <2> QED
        BY <2>1, <2>2, FS_Product
<1>4. \A t \in T : IsFiniteSet(t)
    BY <1>3
<1> QED
    BY <1>2, <1>4, FS_UNION DEF PinTokens

LEMMA TokenMembers ==
    ASSUME NEW own, NEW S, NEW k, \A c \in S : own[c][k] \in Nat
    PROVE  \A t : t \in UNION {{c} \X (1 .. own[c][k]) : c \in S}
              <=> \E c \in S, i \in Nat : 1 <= i /\ i <= own[c][k] /\ t = <<c, i>>
<1> TAKE t
<1>1. ASSUME t \in UNION {{c} \X (1 .. own[c][k]) : c \in S}
      PROVE  \E c \in S, i \in Nat : 1 <= i /\ i <= own[c][k] /\ t = <<c, i>>
    <2>1. PICK c \in S : t \in {c} \X (1 .. own[c][k])
        BY <1>1
    <2>2. PICK i \in 1 .. own[c][k] : t = <<c, i>>
        BY <2>1
    <2> QED
        BY <2>2
<1>2. ASSUME NEW c \in S, NEW i \in Nat, 1 <= i, i <= own[c][k], t = <<c, i>>
      PROVE  t \in UNION {{d} \X (1 .. own[d][k]) : d \in S}
    <2>1. t \in {c} \X (1 .. own[c][k])
        BY <1>2
    <2> QED
        BY <2>1
<1> QED
    BY <1>1, <1>2

LEMMA TokenExists ==
    ASSUME NEW own, NEW S, NEW k, \A c \in S : own[c][k] \in Nat
    PROVE  UNION {{c} \X (1 .. own[c][k]) : c \in S} # {}
              <=> \E c \in S : own[c][k] > 0
<1>1. ASSUME NEW c \in S, own[c][k] > 0
      PROVE  <<c, 1>> \in UNION {{d} \X (1 .. own[d][k]) : d \in S}
    <2>1. \E i \in Nat : 1 <= i /\ i <= own[c][k] /\ <<c, 1>> = <<c, i>>
        BY <1>1
    <2> QED
        BY <2>1, TokenMembers
<1>2. ASSUME NEW t \in UNION {{c} \X (1 .. own[c][k]) : c \in S}
      PROVE  \E c \in S : own[c][k] > 0
    <2>1. PICK c \in S, i \in Nat : 1 <= i /\ i <= own[c][k] /\ t = <<c, i>>
        BY TokenMembers
    <2> QED
        BY <2>1
<1> QED
    BY <1>1, <1>2

\* What one context's pins on a key add to the key's tokens.
LEMMA TokensOfOneContext ==
    ASSUME TypeOK, NEW c \in Context, NEW k \in Key,
           ownedPins' \in [Context -> [Key -> Nat]],
           \A d \in Context \ {c} : ownedPins'[d][k] = ownedPins[d][k]
    PROVE  /\ ownedPins'[c][k] = ownedPins[c][k] + 1
                 => Cardinality(PinTokens(k)') = Cardinality(PinTokens(k)) + 1
           /\ ownedPins'[c][k] = ownedPins[c][k] - 1
                 => Cardinality(PinTokens(k)') = Cardinality(PinTokens(k)) - 1
           /\ ownedPins'[c][k] = ownedPins[c][k]
                 => PinTokens(k)' = PinTokens(k)
<1>0. /\ \A d \in Context : ownedPins[d][k] \in Nat /\ ownedPins'[d][k] \in Nat
      /\ IsFiniteSet(PinTokens(k))
    BY TokensFinite DEF TypeOK
<1>t. /\ \A t : t \in PinTokens(k)
             <=> \E d \in Context, i \in Nat :
                     1 <= i /\ i <= ownedPins[d][k] /\ t = <<d, i>>
      /\ \A t : t \in PinTokens(k)'
             <=> \E d \in Context, i \in Nat :
                     1 <= i /\ i <= ownedPins'[d][k] /\ t = <<d, i>>
    BY <1>0, TokenMembers DEF PinTokens
<1> DEFINE n == ownedPins[c][k]
<1>1. ASSUME ownedPins'[c][k] = n + 1
      PROVE  Cardinality(PinTokens(k)') = Cardinality(PinTokens(k)) + 1
    <2>1. PinTokens(k)' = PinTokens(k) \cup {<<c, n + 1>>}
        BY <1>0, <1>t, <1>1
    <2>2. <<c, n + 1>> \notin PinTokens(k)
        BY <1>0, <1>t
    <2> QED
        BY <2>1, <2>2, <1>0, OneMore
<1>2. ASSUME ownedPins'[c][k] = n - 1
      PROVE  Cardinality(PinTokens(k)') = Cardinality(PinTokens(k)) - 1
    <2>1. PinTokens(k)' = PinTokens(k) \ {<<c, n>>}
        BY <1>0, <1>t, <1>2
    <2>2. <<c, n>> \in PinTokens(k)
        BY <1>0, <1>t, <1>2
    <2>3. Cardinality(PinTokens(k) \ {<<c, n>>}) = Cardinality(PinTokens(k)) - 1
        BY <2>2, <1>0, OneLess
    <2> QED
        BY <2>1, <2>3
<1>3. ASSUME ownedPins'[c][k] = n
      PROVE  PinTokens(k)' = PinTokens(k)
    BY <1>0, <1>t, <1>3
<1> QED
    BY <1>1, <1>2, <1>3

\* Pins are accounted for as long as a context's count and the key's count
\* change together.
LEMMA PinsChange ==
    ASSUME TypeOK, PinsAccounted, NEW c \in Context,
           pinCount' \in [Key -> Int],
           ownedPins' \in [Context -> [Key -> Nat]],
           \A d \in Context \ {c}, k \in Key : ownedPins'[d][k] = ownedPins[d][k],
           \A k \in Key :
               \/ pinCount'[k] = pinCount[k] /\ ownedPins'[c][k] = ownedPins[c][k]
               \/ pinCount'[k] = pinCount[k] + 1 /\ ownedPins'[c][k] = ownedPins[c][k] + 1
               \/ pinCount'[k] = pinCount[k] - 1 /\ ownedPins'[c][k] = ownedPins[c][k] - 1
    PROVE  PinsAccounted'
<1> SUFFICES ASSUME NEW k \in Key
             PROVE  pinCount'[k] = Cardinality(PinTokens(k)')
    BY DEF PinsAccounted
<1>1. pinCount[k] = Cardinality(PinTokens(k))
    BY DEF PinsAccounted
<1> QED
    BY <1>1, TokensOfOneContext

\* The pin counts are natural numbers because they count pins.
LEMMA PinCountType ==
    ASSUME pinCount \in [Key -> Int], ownedPins \in [Context -> [Key -> Nat]],
           \A k \in Key : IsFiniteSet(PinTokens(k)), PinsAccounted
    PROVE  pinCount \in [Key -> Nat]
<1>1. \A k \in Key : pinCount[k] \in Nat
    BY FS_CardinalityType DEF PinsAccounted
<1> QED
    BY <1>1

TeardownsSame ==
    \A k \in Key : state'[k] = "UNLOADING" <=> state[k] = "UNLOADING"
LiveSame == \A d \in Context, t \in Step : Live(d, t)' <=> Live(d, t)
LiveGone(c, s) ==
    /\ Live(c, s)
    /\ \A d \in Context, t \in Step :
           Live(d, t)' <=> Live(d, t) /\ <<d, t>> # <<c, s>>
LiveNew(c, s) ==
    /\ ~Live(c, s)
    /\ \A d \in Context, t \in Step :
           Live(d, t)' <=> Live(d, t) \/ <<d, t>> = <<c, s>>

LEMMA SessionsSame ==
    ASSUME LiveSame
    PROVE  \A k \in Key : Holders(k)' = Holders(k) /\ Loaders(k)' = Loaders(k)
BY DEF LiveSame, Holders, Loaders, Step

LEMMA OperatorGone ==
    ASSUME NEW c \in Context, NEW o \in Operator, LiveGone(c, o)
    PROVE  \A k \in Key :
              /\ Holders(k)' = Holders(k) \ {<<c, o>>}
              /\ <<c, o>> \in Holders(k) <=> k \in KeysOf(o)
              /\ Loaders(k)' = Loaders(k)
BY ConstantsAssumption DEF LiveGone, Holders, Loaders, Step

LEMMA SetupGone ==
    ASSUME NEW c \in Context, NEW f \in Field, LiveGone(c, f)
    PROVE  \A k \in Key :
              /\ Holders(k)' = Holders(k)
              /\ Loaders(k)' = Loaders(k) \ {<<c, f>>}
              /\ <<c, f>> \in Loaders(k) <=> k = KeyOf[f]
BY ConstantsAssumption DEF LiveGone, Holders, Loaders, Step

LEMMA OperatorNew ==
    ASSUME NEW c \in Context, NEW o \in Operator, LiveNew(c, o)
    PROVE  \A k \in Key :
              /\ Holders(k)' = IF k \in KeysOf(o) THEN Holders(k) \cup {<<c, o>>}
                                                  ELSE Holders(k)
              /\ <<c, o>> \notin Holders(k)
              /\ Loaders(k)' = Loaders(k)
BY ConstantsAssumption DEF LiveNew, Holders, Loaders, Step

LEMMA SetupNew ==
    ASSUME NEW c \in Context, NEW f \in Field, LiveNew(c, f)
    PROVE  \A k \in Key :
              /\ Holders(k)' = Holders(k)
              /\ Loaders(k)' = IF k = KeyOf[f] THEN Loaders(k) \cup {<<c, f>>}
                                               ELSE Loaders(k)
BY ConstantsAssumption DEF LiveNew, Holders, Loaders, Step
-----------------------------------------------------------------------------
\* What the steps do to the cache, whatever they do to the context.
CacheTypeOK ==
    /\ state \in [Key -> ResourceState]
    /\ pinCount \in [Key -> Nat]
    /\ userCount \in [Key -> Nat]
    /\ ownedPins \in [Context -> [Key -> Nat]]

LEMMA NothingChanges ==
    ASSUME TypeOK, CacheInv, UNCHANGED <<cacheVars, ownedPins>>, LiveSame
    PROVE  CacheTypeOK' /\ CacheInv'
<1>1. \A k \in Key : /\ Holders(k)' = Holders(k) /\ Loaders(k)' = Loaders(k)
                     /\ PinTokens(k)' = PinTokens(k)
    BY SessionsSame DEF PinTokens
<1>2. CacheTypeOK'
    BY DEF CacheTypeOK, TypeOK, cacheVars
<1> QED
    BY <1>1, <1>2 DEF CacheInv, PinsAccounted, UsersAccounted, PinnedIsLoaded,
                      ExclusiveUse, SingleLoader, cacheVars

\* A resource is pinned exactly when some context owns a pin on it.
LEMMA Pinned ==
    ASSUME TypeOK, NEW k \in Key
    PROVE  PinTokens(k) # {} <=> \E c \in Context : ownedPins[c][k] > 0
<1>1. \A c \in Context : ownedPins[c][k] \in Nat
    BY DEF TypeOK
<1> QED
    BY <1>1, TokenExists DEF PinTokens

LEMMA OwnedIsLoaded ==
    ASSUME TypeOK, PinnedIsLoaded, NEW c \in Context, NEW k \in Key, ownedPins[c][k] > 0
    PROVE  state[k] \in {"READY", "IN_USE"}
BY Pinned DEF PinnedIsLoaded

LEMMA PinnedIsLoadedStep ==
    ASSUME ownedPins' \in [Context -> [Key -> Nat]],
           \A c \in Context, k \in Key :
               ownedPins'[c][k] > 0 => state'[k] \in {"READY", "IN_USE"}
    PROVE  PinnedIsLoaded'
<1>1. \A k \in Key : PinTokens(k)' # {} <=> \E c \in Context : ownedPins'[c][k] > 0
    BY TokenExists DEF PinTokens
<1> QED
    BY <1>1 DEF PinnedIsLoaded

\* A step that leaves the users alone, and the sessions too.
LEMMA UsersSame ==
    ASSUME UsersAccounted, ExclusiveUse, UNCHANGED userCount, LiveSame,
           \A k \in Key : state'[k] = "IN_USE" <=> state[k] = "IN_USE"
    PROVE  UsersAccounted' /\ ExclusiveUse'
BY SessionsSame DEF UsersAccounted, ExclusiveUse

LEMMA PinEffect ==
    ASSUME TypeOK, CacheInv, NEW c \in Context, NEW k \in Key,
           state[k] \in {"READY", "IN_USE"}, Pin(c, k),
           UNCHANGED <<state, userCount>>, LiveSame
    PROVE  CacheTypeOK' /\ CacheInv'
<1>1. CacheTypeOK'
    BY DEF TypeOK, CacheTypeOK, Pin
<1>2. PinsAccounted'
    BY <1>1, PinsChange DEF CacheInv, TypeOK, CacheTypeOK, Pin
<1>3. UsersAccounted' /\ ExclusiveUse'
    BY UsersSame DEF CacheInv
<1>4. SingleLoader'
    BY SessionsSame DEF CacheInv, SingleLoader
<1>5. ASSUME NEW d \in Context, NEW j \in Key, ownedPins'[d][j] > 0
      PROVE  state'[j] \in {"READY", "IN_USE"}
    <2>1. CASE d = c /\ j = k
        BY <2>1
    <2>2. CASE ~(d = c /\ j = k)
        <3>1. ownedPins[d][j] > 0
            BY <2>2, <1>5 DEF TypeOK, Pin
        <3> QED
            BY <3>1, OwnedIsLoaded DEF CacheInv
    <2> QED
        BY <2>1, <2>2
<1>6. PinnedIsLoaded'
    BY <1>1, <1>5, PinnedIsLoadedStep DEF CacheTypeOK
<1> QED
    BY <1>1, <1>2, <1>3, <1>4, <1>6 DEF CacheInv

\* The registered session of a key that is LOADING is its only one, and the
\* key has no pins and no users.
LEMMA LoaderFacts ==
    ASSUME TypeOK, CacheInv, NEW c \in Context, NEW f \in Field, Live(c, f)
    PROVE  /\ state[KeyOf[f]] = "LOADING"
           /\ Loaders(KeyOf[f]) = {<<c, f>>}
           /\ \A d \in Context : ownedPins[d][KeyOf[f]] = 0
           /\ pinCount[KeyOf[f]] = 0
<1>0. KeyOf[f] \in Key
    BY ConstantsAssumption
<1>1. <<c, f>> \in Loaders(KeyOf[f])
    BY DEF Loaders
<1>2. state[KeyOf[f]] = "LOADING" /\ Loaders(KeyOf[f]) = {<<c, f>>}
    BY <1>0, <1>1 DEF CacheInv, SingleLoader
<1>3. PinTokens(KeyOf[f]) = {}
    BY <1>0, <1>2 DEF CacheInv, PinnedIsLoaded
<1>4. \A d \in Context : ownedPins[d][KeyOf[f]] = 0
    <2>1. \A d \in Context : ownedPins[d][KeyOf[f]] \in Nat
        BY <1>0 DEF TypeOK
    <2>2. ~ \E d \in Context : ownedPins[d][KeyOf[f]] > 0
        BY <1>0, <1>3, Pinned
    <2> QED
        BY <2>1, <2>2
<1>5. pinCount[KeyOf[f]] = 0
    BY <1>0, <1>3, FS_EmptySet DEF CacheInv, PinsAccounted
<1> QED
    BY <1>2, <1>4, <1>5

LEMMA LoadEffect ==
    ASSUME TypeOK, CacheInv, NEW c \in Context, NEW f \in Field,
           LoadResource(c, f), LiveGone(c, f)
    PROVE  CacheTypeOK' /\ CacheInv' /\ TeardownsSame
<1> DEFINE k == KeyOf[f]
<1>0. k \in Key /\ Live(c, f)
    BY ConstantsAssumption DEF LiveGone
<1>a. /\ state[k] = "LOADING" /\ pinCount[k] = 0
      /\ Loaders(k) = {<<c, f>>}
      /\ \A d \in Context : ownedPins[d][k] = 0
    BY <1>0, LoaderFacts
<1>b. \A j \in Key : /\ Holders(j)' = Holders(j)
                     /\ Loaders(j)' = Loaders(j) \ {<<c, f>>}
                     /\ <<c, f>> \in Loaders(j) <=> j = k
    BY SetupGone
<1>1. CacheTypeOK'
    BY <1>0 DEF TypeOK, CacheTypeOK, LoadResource, ResourceState
<1>2. PinsAccounted'
    <2>1. /\ pinCount' \in [Key -> Int]
          /\ ownedPins' \in [Context -> [Key -> Nat]]
        BY <1>1 DEF CacheTypeOK
    <2>2. \A d \in Context \ {c}, j \in Key : ownedPins'[d][j] = ownedPins[d][j]
        BY DEF LoadResource, TypeOK
    <2>3. \A j \in Key :
              \/ pinCount'[j] = pinCount[j] /\ ownedPins'[c][j] = ownedPins[c][j]
              \/ pinCount'[j] = pinCount[j] + 1 /\ ownedPins'[c][j] = ownedPins[c][j] + 1
        BY <1>0, <1>a DEF LoadResource, TypeOK
    <2> QED
        BY <2>1, <2>2, <2>3, PinsChange DEF CacheInv
<1>3. UsersAccounted' /\ ExclusiveUse'
    <2>1. \A j \in Key : state'[j] = "IN_USE" <=> state[j] = "IN_USE"
        BY <1>0, <1>a DEF LoadResource, TypeOK
    <2>2. UNCHANGED userCount
        BY DEF LoadResource
    <2> QED
        BY <2>1, <2>2, <1>b DEF CacheInv, UsersAccounted, ExclusiveUse
<1>4. SingleLoader'
    <2> SUFFICES ASSUME NEW j \in Key
                 PROVE  /\ state'[j] = "LOADING" <=> Loaders(j)' # {}
                        /\ \A l, m \in Loaders(j)' : l = m
        BY DEF SingleLoader
    <2>1. CASE j = k
        BY <2>1, <1>0, <1>a, <1>b DEF LoadResource, TypeOK
    <2>2. CASE j # k
        <3>1. Loaders(j)' = Loaders(j) /\ state'[j] = state[j]
            BY <2>2, <1>0, <1>b DEF LoadResource, TypeOK
        <3> QED
            BY <3>1 DEF CacheInv, SingleLoader
    <2> QED
        BY <2>1, <2>2
<1>5. ASSUME NEW d \in Context, NEW j \in Key, ownedPins'[d][j] > 0
      PROVE  state'[j] \in {"READY", "IN_USE"}
    <2>1. CASE j = k
        BY <2>1 DEF LoadResource, TypeOK
    <2>2. CASE j # k
        <3>1. ownedPins[d][j] > 0 /\ state'[j] = state[j]
            BY <2>2, <1>5 DEF TypeOK, LoadResource
        <3> QED
            BY <3>1, OwnedIsLoaded DEF CacheInv
    <2> QED
        BY <2>1, <2>2
<1>6. PinnedIsLoaded'
    BY <1>1, <1>5, PinnedIsLoadedStep DEF CacheTypeOK
<1>7. TeardownsSame
    BY <1>0, <1>a DEF TeardownsSame, TypeOK, LoadResource
<1> QED
    BY <1>1, <1>2, <1>3, <1>4, <1>6, <1>7 DEF CacheInv

LEMMA CancelEffect ==
    ASSUME TypeOK, CacheInv, NEW c \in Context, NEW f \in Field,
           CancelRegistration(f), LiveGone(c, f)
    PROVE  CacheTypeOK' /\ CacheInv' /\ TeardownsSame
<1> DEFINE k == KeyOf[f]
<1>0. k \in Key /\ Live(c, f)
    BY ConstantsAssumption DEF LiveGone
<1>a. /\ state[k] = "LOADING" /\ pinCount[k] = 0
      /\ Loaders(k) = {<<c, f>>}
      /\ \A d \in Context : ownedPins[d][k] = 0
    BY <1>0, LoaderFacts
<1>b. \A j \in Key : /\ Holders(j)' = Holders(j)
                     /\ Loaders(j)' = Loaders(j) \ {<<c, f>>}
                     /\ <<c, f>> \in Loaders(j) <=> j = k
    BY SetupGone
<1>1. CacheTypeOK'
    BY <1>0 DEF TypeOK, CacheTypeOK, CancelRegistration, ResourceState
<1>2. PinsAccounted'
    BY <1>0, <1>1, PinsChange DEF CacheInv, TypeOK, CacheTypeOK, CancelRegistration
<1>3. UsersAccounted' /\ ExclusiveUse'
    <2>1. \A j \in Key : state'[j] = "IN_USE" <=> state[j] = "IN_USE"
        BY <1>0, <1>a DEF CancelRegistration, TypeOK
    <2>2. UNCHANGED userCount
        BY DEF CancelRegistration
    <2> QED
        BY <2>1, <2>2, <1>b DEF CacheInv, UsersAccounted, ExclusiveUse
<1>4. SingleLoader'
    <2> SUFFICES ASSUME NEW j \in Key
                 PROVE  /\ state'[j] = "LOADING" <=> Loaders(j)' # {}
                        /\ \A l, m \in Loaders(j)' : l = m
        BY DEF SingleLoader
    <2>1. CASE j = k
        BY <2>1, <1>0, <1>a, <1>b DEF CancelRegistration, TypeOK
    <2>2. CASE j # k
        <3>1. Loaders(j)' = Loaders(j) /\ state'[j] = state[j]
            BY <2>2, <1>0, <1>b DEF CancelRegistration, TypeOK
        <3> QED
            BY <3>1 DEF CacheInv, SingleLoader
    <2> QED
        BY <2>1, <2>2
<1>5. ASSUME NEW d \in Context, NEW j \in Key, ownedPins'[d][j] > 0
      PROVE  state'[j] \in {"READY", "IN_USE"}
    <2>1. j # k
        BY <1>0, <1>5, <1>a DEF CancelRegistration
    <2>2. ownedPins[d][j] > 0 /\ state'[j] = state[j]
        BY <2>1, <1>5 DEF TypeOK, CancelRegistration
    <2> QED
        BY <2>2, OwnedIsLoaded DEF CacheInv
<1>6. PinnedIsLoaded'
    BY <1>1, <1>5, PinnedIsLoadedStep DEF CacheTypeOK
<1>7. TeardownsSame
    BY <1>0, <1>a DEF TeardownsSame, TypeOK, CancelRegistration
<1> QED
    BY <1>1, <1>2, <1>3, <1>4, <1>6, <1>7 DEF CacheInv

LEMMA ReleaseEffect ==
    ASSUME TypeOK, CacheInv, NEW c \in Context, NEW o \in Operator,
           ReleaseResources(c, o), LiveGone(c, o),
           \A k \in KeysOf(o) : ownedPins[c][k] > 0
    PROVE  CacheTypeOK' /\ CacheInv' /\ TeardownsSame
<1>0. \A k \in Key : /\ Holders(k)' = Holders(k) \ {<<c, o>>}
                     /\ <<c, o>> \in Holders(k) <=> k \in KeysOf(o)
                     /\ Loaders(k)' = Loaders(k)
    BY OperatorGone
<1>1. \A k \in Key :
          /\ userCount[k] = Cardinality(Holders(k))
          /\ state[k] = "IN_USE" <=> Holders(k) # {}
          /\ userCount'[k] = Cardinality(Holders(k)')
          /\ userCount'[k] \in Nat
    <2> TAKE k \in Key
    <2>1. userCount[k] = Cardinality(Holders(k)) /\ IsFiniteSet(Holders(k))
          /\ (state[k] = "IN_USE" <=> Holders(k) # {})
        BY HoldersFinite DEF CacheInv, UsersAccounted
    <2>2. userCount'[k] = Cardinality(Holders(k)')
        <3>1. CASE k \in KeysOf(o)
            <4>1. Cardinality(Holders(k) \ {<<c, o>>}) = Cardinality(Holders(k)) - 1
                BY <1>0, <2>1, <3>1, OneLess
            <4>2. userCount'[k] = userCount[k] - 1
                BY <3>1 DEF ReleaseResources
            <4> QED
                BY <4>1, <4>2, <1>0, <2>1
        <3>2. CASE k \notin KeysOf(o)
            <4>1. Holders(k)' = Holders(k)
                BY <1>0, <3>2
            <4>2. userCount'[k] = userCount[k]
                BY <3>2 DEF ReleaseResources
            <4> QED
                BY <4>1, <4>2, <2>1
        <3> QED
            BY <3>1, <3>2
    <2>3. IsFiniteSet(Holders(k)')
        BY <1>0, <2>1, FS_RemoveElement
    <2>4. Cardinality(Holders(k)') \in Nat
        BY <2>3, FS_CardinalityType
    <2> QED
        BY <2>1, <2>2, <2>4
<1>2. /\ userCount' \in [Key -> Nat]
      /\ pinCount' \in [Key -> Int]
      /\ ownedPins' \in [Context -> [Key -> Nat]]
      /\ state' \in [Key -> ResourceState]
    <2>1. userCount' \in [Key -> Nat]
        BY <1>1 DEF ReleaseResources
    <2>2. pinCount' \in [Key -> Int]
        BY DEF ReleaseResources, TypeOK
    <2>3. ownedPins' \in [Context -> [Key -> Nat]]
        BY DEF ReleaseResources, TypeOK
    <2>4. state' \in [Key -> ResourceState]
        BY DEF ReleaseResources, TypeOK, ResourceState
    <2> QED
        BY <2>1, <2>2, <2>3, <2>4
<1>3. PinsAccounted'
    <2>1. \A d \in Context \ {c}, k \in Key : ownedPins'[d][k] = ownedPins[d][k]
        BY DEF ReleaseResources, TypeOK
    <2>2. \A k \in Key :
              \/ pinCount'[k] = pinCount[k] /\ ownedPins'[c][k] = ownedPins[c][k]
              \/ pinCount'[k] = pinCount[k] - 1 /\ ownedPins'[c][k] = ownedPins[c][k] - 1
        BY DEF ReleaseResources, TypeOK
    <2> QED
        BY <1>2, <2>1, <2>2, PinsChange DEF CacheInv
<1>4. CacheTypeOK'
    <2>0. (ownedPins \in [Context -> [Key -> Nat]]
               => \A j \in Key : IsFiniteSet(PinTokens(j)))'
        BY TokensFinite, PTL
    <2>1. \A j \in Key : IsFiniteSet(PinTokens(j)')
        BY <2>0, <1>2
    <2>2. pinCount' \in [Key -> Nat]
        BY <1>2, <1>3, <2>1, FS_CardinalityType DEF PinsAccounted
    <2> QED
        BY <1>2, <2>2 DEF CacheTypeOK
<1>5. ASSUME NEW k \in Key
      PROVE  /\ state'[k] = "IN_USE" <=> Holders(k)' # {}
             /\ state[k] = "LOADING" <=> state'[k] = "LOADING"
             /\ state'[k] = "UNLOADING" <=> state[k] = "UNLOADING"
             /\ state[k] \in {"READY", "IN_USE"} => state'[k] \in {"READY", "IN_USE"}
    <2>1. CASE k \in KeysOf(o)
        <3>1. Holders(k) # {} /\ state[k] = "IN_USE"
            BY <2>1, <1>0, <1>1
        <3>2. state'[k] = IF userCount[k] = 1 THEN "READY" ELSE "IN_USE"
            BY <2>1, <3>1 DEF ReleaseResources
        <3>3. userCount'[k] = userCount[k] - 1 /\ userCount[k] \in Nat
            BY <2>1 DEF ReleaseResources, TypeOK
        <3>4. IsFiniteSet(Holders(k)')
            BY <1>0, HoldersFinite, FS_RemoveElement
        <3>5. userCount'[k] = 0 <=> Holders(k)' = {}
            BY <1>1, <3>4, FS_EmptySet
        <3> QED
            BY <3>1, <3>2, <3>3, <3>5
    <2>2. CASE k \notin KeysOf(o)
        <3>1. state'[k] = state[k] /\ Holders(k)' = Holders(k)
            BY <2>2, <1>0 DEF ReleaseResources
        <3> QED
            BY <3>1, <1>1
    <2> QED
        BY <2>1, <2>2
<1>6. UsersAccounted' /\ ExclusiveUse' /\ SingleLoader'
    BY <1>0, <1>1, <1>5 DEF CacheInv, UsersAccounted, ExclusiveUse, SingleLoader
<1>7. ASSUME NEW d \in Context, NEW k \in Key, ownedPins'[d][k] > 0
      PROVE  state'[k] \in {"READY", "IN_USE"}
    <2>1. ownedPins[d][k] > 0
        BY <1>7 DEF ReleaseResources, TypeOK
    <2> QED
        BY <2>1, <1>5, OwnedIsLoaded DEF CacheInv
<1>8. PinnedIsLoaded'
    BY <1>2, <1>7, PinnedIsLoadedStep
<1> QED
    BY <1>3, <1>4, <1>5, <1>6, <1>8 DEF CacheInv, TeardownsSame

LEMMA UnpinEffect ==
    ASSUME TypeOK, CacheInv, NEW c \in Context, NEW k \in Key,
           ownedPins[c][k] > 0, UNCHANGED <<state, userCount>>, LiveSame,
           pinCount' = [pinCount EXCEPT ![k] = @ - 1],
           ownedPins' = [ownedPins EXCEPT ![c][k] = @ - 1]
    PROVE  CacheTypeOK' /\ CacheInv'
<1>1. /\ pinCount' \in [Key -> Int]
      /\ ownedPins' \in [Context -> [Key -> Nat]]
    BY DEF TypeOK
<1>2. PinsAccounted'
    <2>1. \A d \in Context \ {c}, j \in Key : ownedPins'[d][j] = ownedPins[d][j]
        BY DEF TypeOK
    <2>2. \A j \in Key :
              \/ pinCount'[j] = pinCount[j] /\ ownedPins'[c][j] = ownedPins[c][j]
              \/ pinCount'[j] = pinCount[j] - 1 /\ ownedPins'[c][j] = ownedPins[c][j] - 1
        BY DEF TypeOK
    <2> QED
        BY <1>1, <2>1, <2>2, PinsChange DEF CacheInv
<1>3. CacheTypeOK'
    <2>0. (ownedPins \in [Context -> [Key -> Nat]]
               => \A j \in Key : IsFiniteSet(PinTokens(j)))'
        BY TokensFinite, PTL
    <2>1. \A j \in Key : IsFiniteSet(PinTokens(j)')
        BY <2>0, <1>1
    <2>2. pinCount' \in [Key -> Nat]
        BY <1>1, <1>2, <2>1, FS_CardinalityType DEF PinsAccounted
    <2> QED
        BY <1>1, <2>2 DEF CacheTypeOK, TypeOK
<1>4. UsersAccounted' /\ ExclusiveUse'
    BY UsersSame DEF CacheInv
<1>5. SingleLoader'
    BY SessionsSame DEF CacheInv, SingleLoader
<1>6. ASSUME NEW d \in Context, NEW j \in Key, ownedPins'[d][j] > 0
      PROVE  state'[j] \in {"READY", "IN_USE"}
    <2>1. ownedPins[d][j] > 0
        BY <1>6 DEF TypeOK
    <2> QED
        BY <2>1, OwnedIsLoaded DEF CacheInv
<1>7. PinnedIsLoaded'
    BY <1>1, <1>6, PinnedIsLoadedStep
<1> QED
    BY <1>2, <1>3, <1>4, <1>5, <1>7 DEF CacheInv

LEMMA DispatchSetupEffect ==
    ASSUME TypeOK, CacheInv, NEW c \in Context, NEW f \in Field,
           state[KeyOf[f]] = "ABSENT", LiveNew(c, f),
           state' = [state EXCEPT ![KeyOf[f]] = "LOADING"],
           UNCHANGED <<pinCount, userCount, ownedPins>>
    PROVE  CacheTypeOK' /\ CacheInv'
<1> DEFINE k == KeyOf[f]
<1>0. k \in Key
    BY ConstantsAssumption
<1>1. CacheTypeOK'
    BY <1>0 DEF TypeOK, CacheTypeOK, ResourceState
<1>2. \A j \in Key : /\ Holders(j)' = Holders(j)
                     /\ Loaders(j)' = IF j = k THEN Loaders(j) \cup {<<c, f>>}
                                               ELSE Loaders(j)
    BY SetupNew
<1>3. \A j \in Key : /\ PinTokens(j)' = PinTokens(j)
                     /\ state'[j] = IF j = k THEN "LOADING" ELSE state[j]
    BY <1>0 DEF PinTokens, TypeOK
<1>4. Loaders(k) = {} /\ PinTokens(k) = {} /\ Holders(k) = {}
    BY <1>0 DEF CacheInv, SingleLoader, PinnedIsLoaded, UsersAccounted
<1>5. PinsAccounted' /\ PinnedIsLoaded'
    BY <1>3, <1>4 DEF CacheInv, PinsAccounted, PinnedIsLoaded
<1>6. UsersAccounted' /\ ExclusiveUse'
    BY <1>2, <1>3, <1>4 DEF CacheInv, UsersAccounted, ExclusiveUse
<1>7. SingleLoader'
    <2> SUFFICES ASSUME NEW j \in Key
                 PROVE  /\ state'[j] = "LOADING" <=> Loaders(j)' # {}
                        /\ \A l, m \in Loaders(j)' : l = m
        BY DEF SingleLoader
    <2>1. CASE j = k
        BY <2>1, <1>2, <1>3, <1>4
    <2>2. CASE j # k
        BY <2>2, <1>2, <1>3 DEF CacheInv, SingleLoader
    <2> QED
        BY <2>1, <2>2
<1> QED
    BY <1>1, <1>5, <1>6, <1>7 DEF CacheInv

LEMMA DispatchOperatorEffect ==
    ASSUME TypeOK, CacheInv, NEW c \in Context, NEW o \in Operator,
           \A k \in KeysOf(o) : Acquirable(k), LiveNew(c, o),
           userCount' = [k \in Key |-> IF k \in KeysOf(o) THEN userCount[k] + 1
                                                         ELSE userCount[k]],
           state' = [k \in Key |-> IF k \in KeysOf(o) THEN "IN_USE" ELSE state[k]],
           UNCHANGED <<pinCount, ownedPins>>
    PROVE  CacheTypeOK' /\ CacheInv'
<1>1. CacheTypeOK'
    BY DEF TypeOK, CacheTypeOK, ResourceState
<1>2. \A k \in Key : /\ Holders(k)' = IF k \in KeysOf(o)
                                      THEN Holders(k) \cup {<<c, o>>} ELSE Holders(k)
                     /\ <<c, o>> \notin Holders(k)
                     /\ Loaders(k)' = Loaders(k)
    BY OperatorNew
<1>3. \A k \in Key : PinTokens(k)' = PinTokens(k)
    BY DEF PinTokens
<1>4. ASSUME NEW k \in Key
      PROVE  /\ userCount'[k] = Cardinality(Holders(k)')
             /\ state'[k] = "IN_USE" <=> Holders(k)' # {}
    <2>1. CASE k \in KeysOf(o)
        <3>1. Holders(k)' = Holders(k) \cup {<<c, o>>} /\ <<c, o>> \notin Holders(k)
            BY <2>1, <1>2
        <3>2. Cardinality(Holders(k) \cup {<<c, o>>}) = Cardinality(Holders(k)) + 1
            BY <1>2, HoldersFinite, OneMore
        <3>3. userCount[k] = Cardinality(Holders(k))
            BY DEF CacheInv, UsersAccounted
        <3> QED
            BY <2>1, <3>1, <3>2, <3>3
    <2>2. CASE k \notin KeysOf(o)
        BY <2>2, <1>2 DEF CacheInv, UsersAccounted
    <2> QED
        BY <2>1, <2>2
<1>5. UsersAccounted'
    BY <1>4 DEF UsersAccounted
<1>6. ExclusiveUse'
    <2> SUFFICES ASSUME NEW k \in Key \ ParallelSafe
                 PROVE  \A g, h \in Holders(k)' : g = h
        BY DEF ExclusiveUse
    <2>1. CASE k \in KeysOf(o)
        <3>1. state[k] # "IN_USE"
            BY <2>1 DEF Acquirable
        <3>2. Holders(k) = {}
            BY <3>1 DEF CacheInv, UsersAccounted
        <3> QED
            BY <2>1, <3>2, <1>2
    <2>2. CASE k \notin KeysOf(o)
        BY <2>2, <1>2 DEF CacheInv, ExclusiveUse
    <2> QED
        BY <2>1, <2>2
<1>7. PinsAccounted' /\ PinnedIsLoaded'
    BY <1>3 DEF CacheInv, PinsAccounted, PinnedIsLoaded
<1>8. SingleLoader'
    BY <1>2 DEF CacheInv, SingleLoader, Acquirable
<1> QED
    BY <1>1, <1>5, <1>6, <1>7, <1>8 DEF CacheInv

\* A teardown starts on a loaded resource nobody keeps, and ends with the
\* resource gone or, if it fails, loaded as before.
LEMMA TeardownEffect ==
    ASSUME TypeOK, CacheInv, NEW k \in Key, NEW to \in {"UNLOADING", "ABSENT", "READY"},
           \/ Unloadable(k)
           \/ state[k] = "UNLOADING"
           \/ state[k] = "LOADING" /\ Loaders(k) = {} /\ to = "ABSENT",
           state' = [state EXCEPT ![k] = to], LiveSame,
           UNCHANGED <<pinCount, userCount, ownedPins>>
    PROVE  CacheTypeOK' /\ CacheInv'
<1>1. CacheTypeOK'
    BY DEF TypeOK, CacheTypeOK, ResourceState
<1>2. \A j \in Key : /\ Holders(j)' = Holders(j) /\ Loaders(j)' = Loaders(j)
                     /\ PinTokens(j)' = PinTokens(j)
                     /\ state'[j] = IF j = k THEN to ELSE state[j]
    BY SessionsSame DEF PinTokens, TypeOK
<1>3. PinTokens(k) = {}
    <2>1. CASE Unloadable(k)
        <3>1. Cardinality(PinTokens(k)) = 0 /\ IsFiniteSet(PinTokens(k))
            BY <2>1, TokensFinite DEF Unloadable, CacheInv, PinsAccounted, TypeOK
        <3> QED
            BY <3>1, FS_EmptySet
    <2>2. CASE state[k] \in {"UNLOADING", "LOADING"}
        BY <2>2 DEF CacheInv, PinnedIsLoaded
    <2> QED
        BY <2>1, <2>2
<1>4. Holders(k) = {} /\ Loaders(k) = {}
    BY DEF CacheInv, UsersAccounted, SingleLoader, Unloadable
<1>5. PinsAccounted' /\ PinnedIsLoaded'
    BY <1>2, <1>3 DEF CacheInv, PinsAccounted, PinnedIsLoaded
<1>6. UsersAccounted' /\ ExclusiveUse'
    BY <1>2, <1>4 DEF CacheInv, UsersAccounted, ExclusiveUse
<1>7. SingleLoader'
    BY <1>2, <1>4 DEF CacheInv, SingleLoader
<1> QED
    BY <1>1, <1>5, <1>6, <1>7 DEF CacheInv
-----------------------------------------------------------------------------
\* A step about c leaves every other context as it was.
OnlyContext(c) ==
    \A d \in Context \ {c} :
        /\ phase'[d] = phase[d]
        /\ ownedPins'[d] = ownedPins[d]
        /\ run'[d] = run[d]
        /\ \A t \in {"PREPARE", "SETTLE", "UNPIN"} : InLoop(t, d)' <=> InLoop(t, d)

LEMMA OthersOK ==
    ASSUME \A d \in Context : ContextOK(d), NEW c \in Context, OnlyContext(c)
    PROVE  \A d \in Context \ {c} : ContextOK(d)'
<1> SUFFICES ASSUME NEW d \in Context \ {c} PROVE ContextOK(d)'
    OBVIOUS
<1>1. /\ \A s \in Step : Live(d, s)' <=> Live(d, s)
      /\ \A k \in Key : Claims(d, k)' = Claims(d, k)
    BY DEF OnlyContext, Live, Claims
<1>2. /\ InLoop("PREPARE", d)' <=> InLoop("PREPARE", d)
      /\ InLoop("SETTLE", d)' <=> InLoop("SETTLE", d)
      /\ InLoop("UNPIN", d)' <=> InLoop("UNPIN", d)
    BY DEF OnlyContext
<1>3. phase'[d] = phase[d] /\ ownedPins'[d] = ownedPins[d] /\ run'[d] = run[d]
    BY DEF OnlyContext
<1> QED
    BY <1>1, <1>2, <1>3 DEF ContextOK

\* Fewer claims need no more pins.
LEMMA FewerClaims ==
    ASSUME TypeOK, NEW c \in Context, NEW k \in Key,
           Cardinality(Claims(c, k)) <= ownedPins[c][k],
           Claims(c, k)' \subseteq Claims(c, k),
           ownedPins'[c][k] \in Nat, ownedPins[c][k] <= ownedPins'[c][k]
    PROVE  Cardinality(Claims(c, k)') <= ownedPins'[c][k]
<1>1. IsFiniteSet(Claims(c, k))
    BY ClaimsFinite
<1>2. /\ Cardinality(Claims(c, k)') <= Cardinality(Claims(c, k))
      /\ IsFiniteSet(Claims(c, k)')
    BY <1>1, FS_Subset
<1>3. Cardinality(Claims(c, k)) \in Nat /\ Cardinality(Claims(c, k)') \in Nat
    BY <1>1, <1>2, FS_CardinalityType
<1>4. ownedPins[c][k] \in Nat
    BY DEF TypeOK
<1> QED
    BY <1>2, <1>3, <1>4

LEMMA OneMoreClaim ==
    ASSUME TypeOK, NEW c \in Context, NEW k \in Key, NEW o,
           Cardinality(Claims(c, k)) <= ownedPins[c][k],
           Claims(c, k)' \subseteq Claims(c, k) \cup {o},
           ownedPins'[c][k] = ownedPins[c][k] + 1
    PROVE  Cardinality(Claims(c, k)') <= ownedPins'[c][k]
<1>1. IsFiniteSet(Claims(c, k))
    BY ClaimsFinite
<1>2. /\ IsFiniteSet(Claims(c, k) \cup {o})
      /\ Cardinality(Claims(c, k) \cup {o}) <= Cardinality(Claims(c, k)) + 1
    <2>1. /\ IsFiniteSet(Claims(c, k) \cup {o})
          /\ Cardinality(Claims(c, k) \cup {o}) =
                 IF o \in Claims(c, k) THEN Cardinality(Claims(c, k))
                                       ELSE Cardinality(Claims(c, k)) + 1
        BY <1>1, FS_AddElement
    <2>2. Cardinality(Claims(c, k)) \in Nat
        BY <1>1, FS_CardinalityType
    <2> QED
        BY <2>1, <2>2
<1>3. /\ Cardinality(Claims(c, k)') <= Cardinality(Claims(c, k) \cup {o})
      /\ IsFiniteSet(Claims(c, k)')
    BY <1>2, FS_Subset
<1>4. /\ Cardinality(Claims(c, k)) \in Nat
      /\ Cardinality(Claims(c, k)') \in Nat
      /\ Cardinality(Claims(c, k) \cup {o}) \in Nat
    BY <1>1, <1>2, <1>3, FS_CardinalityType
<1>5. ownedPins[c][k] \in Nat
    BY DEF TypeOK
<1> QED
    BY <1>2, <1>3, <1>4, <1>5

LEMMA OneClaimLess ==
    ASSUME TypeOK, NEW c \in Context, NEW k \in Key, NEW o \in Claims(c, k),
           Cardinality(Claims(c, k)) <= ownedPins[c][k],
           Claims(c, k)' = Claims(c, k) \ {o},
           ownedPins'[c][k] = ownedPins[c][k] - 1
    PROVE  Cardinality(Claims(c, k)') <= ownedPins'[c][k]
<1>1. IsFiniteSet(Claims(c, k))
    BY ClaimsFinite
<1>2. Cardinality(Claims(c, k)') = Cardinality(Claims(c, k)) - 1
    BY <1>1, OneLess
<1>3. Cardinality(Claims(c, k)) \in Nat /\ ownedPins[c][k] \in Nat
    BY <1>1, FS_CardinalityType DEF TypeOK
<1> QED
    BY <1>2, <1>3

\* A context with a claim on a key owns a pin on it.
LEMMA ClaimIsPinned ==
    ASSUME TypeOK, NEW c \in Context, ContextOK(c), NEW k \in Key,
           run[c] # "DONE", ~InLoop("UNPIN", c), Claims(c, k) # {}
    PROVE  ownedPins[c][k] > 0
<1>1. IsFiniteSet(Claims(c, k))
    BY ClaimsFinite
<1>2. Cardinality(Claims(c, k)) \in Nat /\ Cardinality(Claims(c, k)) # 0
    BY <1>1, FS_CardinalityType, FS_EmptySet
<1>3. Cardinality(Claims(c, k)) <= ownedPins[c][k] /\ ownedPins[c][k] \in Nat
    BY DEF ContextOK, TypeOK
<1> QED
    BY <1>2, <1>3
-----------------------------------------------------------------------------
\* A session that moves between the phases it is live in.
LEMMA SessionMoves ==
    ASSUME IInv, NEW c \in Context, NEW s \in Step, NEW p \in LivePhase, Live(c, s),
           phase' = [phase EXCEPT ![c][s] = p],
           UNCHANGED <<cacheVars, ownedPins, run, iteration, coordVars>>
    PROVE  IInv'
<1>1. \A d \in Context, t \in Step :
          phase'[d][t] = IF d = c /\ t = s THEN p ELSE phase[d][t]
    BY DEF IInv, TypeOK
<1>2. LiveSame
    BY <1>1 DEF LiveSame, Live
<1>3. CacheInv'
    BY <1>2, NothingChanges DEF IInv
<1>4. TypeOK'
    BY DEF IInv, TypeOK, cacheVars, coordVars, Phase
<1>5. OnlyContext(c)
    BY <1>1 DEF OnlyContext, IInv, TypeOK, coordVars, InLoop
<1>6. ContextOK(c)'
    <2>1. \A k \in Key : Claims(c, k)' = Claims(c, k)
        BY <1>1, <1>2, ConstantsAssumption
        DEF Claims, LiveSame, Step, FieldsOf, Live, LivePhase
    <2>2. ContextOK(c)
        BY DEF IInv
    <2>3. \A f \in Field :
              phase'[c][f] # "DONE" => phase'[c][OperatorOf[f]] = "BLOCKED"
        BY <1>1, <2>2, ConstantsAssumption DEF ContextOK, Live, LivePhase, Step
    <2>4. run[c] \notin {"NEW", "QUEUED", "DONE"}
        BY <2>2 DEF ContextOK
    <2>5. ~InLoop("PREPARE", c) /\ ~InLoop("UNPIN", c)
        BY <2>2 DEF ContextOK
    <2> QED
        BY <2>1, <2>2, <2>3, <2>4, <2>5 DEF ContextOK, InLoop, coordVars
<1>7. \A d \in Context : ContextOK(d)'
    BY <1>5, <1>6, OthersOK DEF IInv
<1>8. CoordinatorOK'
    BY DEF IInv, CoordinatorOK, cacheVars, coordVars, InLoop
<1> QED
    BY <1>3, <1>4, <1>7, <1>8 DEF IInv

\* A step that changes neither the cache nor any phase.
LEMMA NoPhaseMoves ==
    ASSUME IInv, UNCHANGED <<cacheVars, ownedPins, phase>>
    PROVE  /\ CacheTypeOK' /\ CacheInv'
           /\ phase' \in [Context -> [Step -> Phase]]
           /\ \A c \in Context :
                  /\ \A s \in Step : Live(c, s)' <=> Live(c, s)
                  /\ \A k \in Key : Claims(c, k)' = Claims(c, k)
<1>1. LiveSame
    BY DEF LiveSame, Live
<1>2. CacheTypeOK' /\ CacheInv'
    BY <1>1, NothingChanges DEF IInv
<1>3. \A c \in Context, k \in Key : Claims(c, k)' = Claims(c, k)
    BY DEF Claims, Live
<1> QED
    BY <1>1, <1>2, <1>3 DEF LiveSame, IInv, TypeOK

\* Start, Pause, Resume and Abort.
LEMMA SetRunStep ==
    ASSUME IInv, NEW c \in Context, NEW from, NEW to,
           SetRun(c, from, to),
           \/ from \subseteq {"QUEUED", "RUNNING", "PAUSED"}
              /\ to \in {"RUNNING", "PAUSED", "DRAINING"}
           \/ from = {"NEW"} /\ to = "DONE"
    PROVE  IInv'
<1>0. /\ run[c] \in from /\ run' = [run EXCEPT ![c] = to]
      /\ UNCHANGED <<cacheVars, ownedPins, phase, iteration, coordVars>>
      /\ Idle /\ engine = "RUNNING"
    BY DEF SetRun, Coordinated
<1>1. /\ CacheTypeOK' /\ CacheInv'
      /\ phase' \in [Context -> [Step -> Phase]]
      /\ \A d \in Context :
             /\ \A s \in Step : Live(d, s)' <=> Live(d, s)
             /\ \A k \in Key : Claims(d, k)' = Claims(d, k)
    BY <1>0, NoPhaseMoves
<1>2. TypeOK'
    BY <1>0, <1>1 DEF IInv, TypeOK, CacheTypeOK, coordVars, RunState
<1>3. OnlyContext(c)
    BY <1>0 DEF OnlyContext, InLoop, coordVars, IInv, TypeOK
<1>4. ContextOK(c)'
    <2>1. ContextOK(c) /\ run'[c] = to
        BY <1>0 DEF IInv, TypeOK
    <2>2. phase' = phase /\ ownedPins' = ownedPins
        BY <1>0
    <2>3. \A t \in {"PREPARE", "SETTLE", "UNPIN"} : ~InLoop(t, c) /\ ~InLoop(t, c)'
        BY <1>0 DEF InLoop, Idle, coordVars
    <2>4. run[c] # "DONE"
        BY <1>0
    <2> QED
        BY <1>0, <1>1, <2>1, <2>2, <2>3, <2>4 DEF ContextOK
<1>5. \A d \in Context : ContextOK(d)'
    BY <1>3, <1>4, OthersOK DEF IInv
<1>6. CoordinatorOK'
    BY <1>0 DEF IInv, CoordinatorOK, cacheVars, coordVars, InLoop, Idle
<1> QED
    BY <1>1, <1>2, <1>5, <1>6 DEF IInv

\* The coordinator enters or leaves a loop about c.
LEMMA LoopMoves ==
    ASSUME IInv, NEW c \in Context,
           UNCHANGED <<cacheVars, ownedPins, phase, iteration, engine, unclosed>>,
           \/ /\ \/ Idle /\ engine # "CLOSING" /\ engine # "CLOSED"
                 \/ InLoop("SETTLE", c)
              /\ \/ Enter("SETTLE", c) /\ run[c] \in {"RUNNING", "DRAINING"}
                 \/ Enter("UNPIN", c) /\ run[c] \in {"RUNNING", "DRAINING"}
                    /\ \A s \in Step : ~Live(c, s)
                 \/ Leave
              /\ UNCHANGED run
           \/ InLoop("PREPARE", c) /\ Leave /\ UNCHANGED run
           \/ /\ InLoop("UNPIN", c) /\ Leave
              /\ \A k \in Key : ownedPins[c][k] = 0
              /\ run' = [run EXCEPT ![c] = "DONE"]
    PROVE  IInv'
<1>1. /\ CacheTypeOK' /\ CacheInv'
      /\ phase' \in [Context -> [Step -> Phase]]
      /\ \A d \in Context :
             /\ \A s \in Step : Live(d, s)' <=> Live(d, s)
             /\ \A k \in Key : Claims(d, k)' = Claims(d, k)
    BY NoPhaseMoves
<1>2. TypeOK'
    BY <1>1 DEF IInv, TypeOK, CacheTypeOK, RunState, Enter, Leave, Task
<1>3. OnlyContext(c)
    BY ConstantsAssumption DEF OnlyContext, InLoop, IInv, TypeOK, Enter, Leave, Idle
<1>4. ContextOK(c)'
    <2>1. ContextOK(c) /\ phase' = phase /\ ownedPins' = ownedPins
        BY DEF IInv
    <2>2. CASE UNCHANGED run /\ Enter("SETTLE", c)
        BY <1>1, <2>1, <2>2 DEF ContextOK, InLoop, Enter, Leave, Idle
    <2>3. CASE UNCHANGED run /\ Enter("UNPIN", c)
        BY <1>1, <2>1, <2>3 DEF ContextOK, InLoop, Enter, Leave, Idle
    <2>4. CASE UNCHANGED run /\ Leave /\ ~InLoop("UNPIN", c)
        BY <1>1, <2>1, <2>4 DEF ContextOK, InLoop, Enter, Leave, Idle
    <2>5. CASE InLoop("UNPIN", c) /\ Leave /\ run' = [run EXCEPT ![c] = "DONE"]
               /\ \A k \in Key : ownedPins[c][k] = 0
        <3>1. run'[c] = "DONE"
            BY <2>5 DEF IInv, TypeOK
        <3> QED
            BY <1>1, <2>1, <2>5, <3>1 DEF ContextOK, InLoop, Enter, Leave
    <2> QED
        BY <2>2, <2>3, <2>4, <2>5 DEF InLoop, Idle
<1>5. \A d \in Context : ContextOK(d)'
    BY <1>3, <1>4, OthersOK DEF IInv
<1>6. CoordinatorOK'
    BY DEF IInv, CoordinatorOK, cacheVars, InLoop, Enter, Leave, Idle
<1> QED
    BY <1>1, <1>2, <1>5, <1>6 DEF IInv

\* An iteration starts with fresh phases: no session and no claim.
LEMMA IterationStarts ==
    ASSUME IInv, NEW c \in Context, NEW missing \in SUBSET Graph[c],
           phase' = [phase EXCEPT ![c] = FreshPhases(c, missing)],
           \A s \in Step : ~Live(c, s),
           \/ Idle /\ engine = "RUNNING" /\ run[c] = "NEW"
              /\ run' = [run EXCEPT ![c] = "QUEUED"]
           \/ InLoop("SETTLE", c) /\ run[c] = "RUNNING" /\ UNCHANGED run,
           iteration' \in [Context -> 0 .. MaxIteration],
           Enter("PREPARE", c),
           UNCHANGED <<cacheVars, ownedPins, engine, unclosed>>
    PROVE  IInv'
<1>1. /\ \A d \in Context \ {c} : phase'[d] = phase[d]
      /\ phase'[c] = FreshPhases(c, missing)
      /\ phase' \in [Context -> [Step -> Phase]]
    BY DEF IInv, TypeOK, FreshPhases, Phase
<1>2. \A s \in Step : /\ ~Live(c, s)'
                      /\ phase'[c][s] = FreshPhases(c, missing)[s]
    BY <1>1 DEF Live, LivePhase, FreshPhases
<1>3. LiveSame
    BY <1>1, <1>2 DEF LiveSame, Live
<1>4. CacheTypeOK' /\ CacheInv'
    BY <1>3, NothingChanges DEF IInv
<1>5. TypeOK'
    BY <1>1, <1>4 DEF IInv, TypeOK, CacheTypeOK, RunState, Enter, Task
<1>6. OnlyContext(c)
    BY <1>1, ConstantsAssumption
    DEF OnlyContext, InLoop, IInv, TypeOK, Enter, Idle, cacheVars
<1>7. \A k \in Key : Claims(c, k)' = {}
    <2> SUFFICES ASSUME NEW k \in Key, NEW o \in Claims(c, k)' PROVE FALSE
        OBVIOUS
    <2>1. o \in Operator /\ ~Live(c, o)'
        BY <1>2 DEF Claims, Step
    <2>2. PICK f \in FieldsOf(o) : phase'[c][f] = "DONE" /\ phase'[c][o] # "DONE"
        BY <2>1 DEF Claims
    <2>3. f \in Field /\ OperatorOf[f] = o /\ f \notin Operator
        BY ConstantsAssumption DEF FieldsOf
    <2>4. GroupOf(f) = o /\ GroupOf(o) = o
        BY <2>1, <2>3, ConstantsAssumption DEF GroupOf
    <2> QED
        BY <1>2, <2>1, <2>2, <2>3, <2>4 DEF FreshPhases, Step
<1>8. ContextOK(c)'
    <2>1. \A k \in Key : Cardinality(Claims(c, k)') <= ownedPins'[c][k]
        <3> TAKE k \in Key
        <3>1. ownedPins'[c][k] \in Nat
            BY <1>4 DEF CacheTypeOK
        <3>2. Cardinality(Claims(c, k)') = 0
            BY <1>7, FS_EmptySet
        <3> QED
            BY <3>1, <3>2
    <2>2. ASSUME NEW f \in Field, phase'[c][f] # "DONE"
          PROVE  phase'[c][OperatorOf[f]] = "BLOCKED"
        <3>1. OperatorOf[f] \in Operator /\ f \in FieldsOf(OperatorOf[f])
              /\ OperatorOf[f] \notin Field /\ f \notin Operator
            BY ConstantsAssumption DEF FieldsOf
        <3>2. GroupOf(f) = OperatorOf[f] /\ GroupOf(OperatorOf[f]) = OperatorOf[f]
            BY <3>1 DEF GroupOf
        <3> QED
            BY <1>2, <2>2, <3>1, <3>2 DEF FreshPhases, Step
    <2>3. /\ run'[c] \in {"QUEUED", "RUNNING"}
          /\ InLoop("PREPARE", c)' /\ ~InLoop("SETTLE", c)' /\ ~InLoop("UNPIN", c)'
        BY DEF IInv, TypeOK, InLoop, Enter
    <2> QED
        BY <1>2, <2>1, <2>2, <2>3 DEF ContextOK
<1>9. \A d \in Context : ContextOK(d)'
    BY <1>6, <1>8, OthersOK DEF IInv
<1>10. CoordinatorOK'
    BY DEF IInv, CoordinatorOK, cacheVars, InLoop, Enter, Idle
<1> QED
    BY <1>4, <1>5, <1>9, <1>10 DEF IInv

Completes(c, f) == phase' = [phase EXCEPT ![c] = CompleteStep(@, f)]

\* What completing a resource step does to the phases of its context.
LEMMA CompleteStepFacts ==
    ASSUME IInv, NEW c \in Context, NEW f \in Field, phase[c][f] # "DONE", Completes(c, f)
    PROVE  /\ phase' \in [Context -> [Step -> Phase]]
           /\ \A d \in Context \ {c} : phase'[d] = phase[d]
           /\ phase'[c][f] = "DONE"
           /\ phase[c][OperatorOf[f]] = "BLOCKED"
           /\ phase'[c][OperatorOf[f]] \in {"BLOCKED", "READY"}
           /\ phase'[c][OperatorOf[f]] = "READY"
                 => \A g \in FieldsOf(OperatorOf[f]) : phase'[c][g] = "DONE"
           /\ \A s \in Step \ {f, OperatorOf[f]} : phase'[c][s] = phase[c][s]
           /\ \A d \in Context, s \in Step :
                 Live(d, s)' <=> Live(d, s) /\ <<d, s>> # <<c, f>>
           /\ \A k \in Key \ {KeyOf[f]} : Claims(c, k)' = Claims(c, k)
           /\ Claims(c, KeyOf[f])' \subseteq Claims(c, KeyOf[f]) \cup {OperatorOf[f]}
           /\ \A g \in Field :
                 phase'[c][g] # "DONE" => phase'[c][OperatorOf[g]] = "BLOCKED"
<1> DEFINE o == OperatorOf[f]
<1>0. o \in Operator /\ o \in Step /\ f \in Step /\ o # f /\ o \notin Field
    BY ConstantsAssumption DEF Step
<1>1. phase[c][o] = "BLOCKED" /\ phase[c] \in [Step -> Phase]
    BY DEF IInv, ContextOK, TypeOK
<1>2. phase'[c] = CompleteStep(phase[c], f)
      /\ \A d \in Context \ {c} : phase'[d] = phase[d]
    BY DEF IInv, TypeOK, Completes
<1>3. \A s \in Step :
          phase'[c][s] = IF s = f THEN "DONE"
                         ELSE IF s = o /\ \A g \in FieldsOf(o) \ {f} : phase[c][g] = "DONE"
                         THEN "READY" ELSE phase[c][s]
    BY <1>0, <1>1, <1>2 DEF CompleteStep
<1>4. phase' \in [Context -> [Step -> Phase]]
    <2>1. CompleteStep(phase[c], f) \in [Step -> Phase]
        BY <1>0, <1>1 DEF CompleteStep, Phase
    <2> QED
        BY <2>1 DEF IInv, TypeOK, Completes
<1>5. \A d \in Context, s \in Step :
          Live(d, s)' <=> Live(d, s) /\ <<d, s>> # <<c, f>>
    BY <1>0, <1>1, <1>2, <1>3 DEF Live, LivePhase
<1>6. FieldsOf(o) \subseteq Field /\ \A g \in FieldsOf(o) : g \in Step /\ g # o
    BY <1>0, ConstantsAssumption DEF FieldsOf, Step
<1>7. phase'[c][o] = "READY" => \A g \in FieldsOf(o) : phase'[c][g] = "DONE"
    BY <1>0, <1>1, <1>3, <1>6
<1>8. ASSUME NEW k \in Key, NEW p \in Operator, p \in Claims(c, k)', p # o \/ k # KeyOf[f]
      PROVE  p \in Claims(c, k)
    BY <1>8, <1>0, <1>1, <1>3, <1>5, <1>6, ConstantsAssumption DEF Claims, FieldsOf, Step
<1>9. ASSUME NEW k \in Key, NEW p \in Operator, p \in Claims(c, k)
      PROVE  p \in Claims(c, k)'
    BY <1>9, <1>0, <1>1, <1>3, <1>5, <1>6, ConstantsAssumption DEF Claims, FieldsOf, Step
<1>10. \A g \in Field : phase'[c][g] # "DONE" => phase'[c][OperatorOf[g]] = "BLOCKED"
    <2> SUFFICES ASSUME NEW g \in Field, phase'[c][g] # "DONE"
                 PROVE  phase'[c][OperatorOf[g]] = "BLOCKED"
        OBVIOUS
    <2>1. g \in Step /\ g # f /\ g # o /\ OperatorOf[g] \in Step /\ OperatorOf[g] # f
        BY <1>0, <1>3, ConstantsAssumption DEF Step
    <2>2. phase[c][g] # "DONE"
        BY <1>3, <2>1
    <2>3. phase[c][OperatorOf[g]] = "BLOCKED"
        BY <2>2 DEF IInv, ContextOK
    <2>4. OperatorOf[g] = o => g \in FieldsOf(o) \ {f}
        BY <2>1 DEF FieldsOf
    <2> QED
        BY <1>3, <2>1, <2>2, <2>3, <2>4
<1>11. Claims(c, KeyOf[f])' \subseteq Claims(c, KeyOf[f]) \cup {o}
    BY <1>8, ConstantsAssumption DEF Claims
<1>12. \A k \in Key \ {KeyOf[f]} : Claims(c, k)' = Claims(c, k)
    BY <1>8, <1>9 DEF Claims
<1> QED
    BY <1>0, <1>1, <1>2, <1>3, <1>4, <1>5, <1>7, <1>10, <1>11, <1>12

\* A resource step that is skipped: the context pins the loaded resource.
LEMMA SkipStep ==
    ASSUME IInv, NEW c \in Context, NEW f \in Field,
           phase[c][f] # "DONE", ~Live(c, f), Acquirable(KeyOf[f]),
           Pin(c, KeyOf[f]),
           phase' = [phase EXCEPT ![c] = CompleteStep(@, f)],
           run[c] # "DONE", ~InLoop("UNPIN", c), run[c] # "NEW",
           UNCHANGED <<state, userCount, run, iteration, coordVars>>
    PROVE  IInv'
<1> DEFINE k == KeyOf[f]
<1>0. k \in Key /\ state[k] \in {"READY", "IN_USE"}
    BY ConstantsAssumption DEF Acquirable
<1>a. /\ phase' \in [Context -> [Step -> Phase]]
      /\ \A d \in Context \ {c} : phase'[d] = phase[d]
      /\ \A d \in Context, s \in Step :
             Live(d, s)' <=> Live(d, s) /\ <<d, s>> # <<c, f>>
      /\ \A j \in Key \ {k} : Claims(c, j)' = Claims(c, j)
      /\ Claims(c, k)' \subseteq Claims(c, k) \cup {OperatorOf[f]}
      /\ \A g \in Field : phase'[c][g] # "DONE" => phase'[c][OperatorOf[g]] = "BLOCKED"
    <2>1. Completes(c, f)
        BY DEF Completes
    <2> QED
        BY <2>1, CompleteStepFacts
<1>1. LiveSame
    BY <1>a DEF LiveSame
<1>2. CacheTypeOK' /\ CacheInv'
    BY <1>0, <1>1, PinEffect DEF IInv
<1>3. TypeOK'
    BY <1>a, <1>2 DEF IInv, TypeOK, CacheTypeOK, coordVars
<1>4. OnlyContext(c)
    BY <1>a DEF OnlyContext, InLoop, coordVars, Pin, IInv, TypeOK
<1>5. ContextOK(c)'
    <2>1. ContextOK(c)
        BY DEF IInv
    <2>2. \A j \in Key : ownedPins'[c][j] = IF j = k THEN ownedPins[c][j] + 1
                                                   ELSE ownedPins[c][j]
        BY DEF Pin, IInv, TypeOK
    <2>3. \A j \in Key : Cardinality(Claims(c, j)') <= ownedPins'[c][j]
        <3> TAKE j \in Key
        <3>1. Cardinality(Claims(c, j)) <= ownedPins[c][j]
            BY <2>1 DEF ContextOK
        <3>2. CASE j = k
            BY <3>1, <3>2, <1>a, <2>2, OneMoreClaim DEF IInv
        <3>3. CASE j # k
            BY <3>1, <3>3, <1>a, <2>2
        <3> QED
            BY <3>2, <3>3
    <2>4. \A s \in Step : Live(c, s)' <=> Live(c, s)
        BY <1>1 DEF LiveSame
    <2>5. run'[c] \notin {"NEW", "DONE"} /\ run' = run
        BY DEF IInv, TypeOK
    <2>6. \A t \in {"PREPARE", "SETTLE", "UNPIN"} : InLoop(t, c)' <=> InLoop(t, c)
        BY DEF InLoop, coordVars
    <2> QED
        BY <1>a, <2>1, <2>3, <2>4, <2>5, <2>6 DEF ContextOK
<1>6. \A d \in Context : ContextOK(d)'
    BY <1>4, <1>5, OthersOK DEF IInv
<1>7. CoordinatorOK'
    BY DEF IInv, CoordinatorOK, coordVars, InLoop
<1> QED
    BY <1>2, <1>3, <1>6, <1>7 DEF IInv

LEMMA PrepareResourceStep ==
    ASSUME IInv, NEW c \in Context, NEW f \in Field, PrepareResource(c, f)
    PROVE  IInv'
<1>0. /\ InLoop("PREPARE", c) /\ phase[c][f] = "BLOCKED"
      /\ run[c] \in {"QUEUED", "RUNNING"} /\ ~InLoop("UNPIN", c)
      /\ \A s \in Step : ~Live(c, s)
    BY DEF PrepareResource, IInv, ContextOK, InLoop
<1>1. CASE Acquirable(KeyOf[f])
    <2>1. /\ Pin(c, KeyOf[f])
          /\ phase' = [phase EXCEPT ![c] = CompleteStep(@, f)]
          /\ UNCHANGED <<state, userCount, run, iteration, coordVars>>
        BY <1>1 DEF PrepareResource
    <2>2. ~Live(c, f)
        BY <1>0 DEF Step
    <2> QED
        BY <1>0, <1>1, <2>1, <2>2, SkipStep
<1>2. CASE ~Acquirable(KeyOf[f])
    <2>1. /\ phase' = [phase EXCEPT ![c][f] = "READY"]
          /\ UNCHANGED <<cacheVars, ownedPins, run, iteration, coordVars>>
        BY <1>2 DEF PrepareResource, cacheVars
    <2>2. \A d \in Context, t \in Step :
              phase'[d][t] = IF d = c /\ t = f THEN "READY" ELSE phase[d][t]
        BY <2>1 DEF IInv, TypeOK
    <2>3. LiveSame
        BY <1>0, <2>2 DEF LiveSame, Live, LivePhase
    <2>4. CacheTypeOK' /\ CacheInv'
        BY <2>1, <2>3, NothingChanges DEF IInv
    <2>5. TypeOK'
        BY <2>1 DEF IInv, TypeOK, cacheVars, coordVars, Phase
    <2>6. OnlyContext(c)
        BY <2>1, <2>2 DEF OnlyContext, InLoop, coordVars, IInv, TypeOK
    <2>7. ContextOK(c)'
        <3>1. ContextOK(c)
            BY DEF IInv
        <3>2. \A k \in Key : Claims(c, k)' = Claims(c, k)
            BY <1>0, <2>2, <2>3, ConstantsAssumption
            DEF Claims, LiveSame, Step, FieldsOf
        <3>3. \A g \in Field :
                  phase'[c][g] # "DONE" => phase'[c][OperatorOf[g]] = "BLOCKED"
            BY <1>0, <2>2, <3>1, ConstantsAssumption DEF ContextOK, Step
        <3>4. \A s \in Step : ~Live(c, s)'
            BY <1>0, <2>3 DEF LiveSame
        <3>5. /\ \A t \in {"PREPARE", "SETTLE", "UNPIN"} : InLoop(t, c)' <=> InLoop(t, c)
              /\ run' = run /\ ownedPins' = ownedPins
            BY <2>1 DEF InLoop, coordVars
        <3> QED
            BY <1>0, <3>1, <3>2, <3>3, <3>4, <3>5 DEF ContextOK
    <2>8. \A d \in Context : ContextOK(d)'
        BY <2>6, <2>7, OthersOK DEF IInv
    <2>9. CoordinatorOK'
        BY <2>1 DEF IInv, CoordinatorOK, cacheVars, coordVars, InLoop
    <2> QED
        BY <2>4, <2>5, <2>8, <2>9 DEF IInv
<1> QED
    BY <1>1, <1>2

LEMMA SkipAvailableStep ==
    ASSUME IInv, NEW c \in Context, NEW f \in Field, SkipAvailable(c, f)
    PROVE  IInv'
<1>1. /\ phase[c][f] # "DONE" /\ ~Live(c, f) /\ run[c] = "RUNNING"
      /\ ~InLoop("UNPIN", c)
    BY DEF SkipAvailable, Live, LivePhase, Coordinated, Idle, InLoop
<1> QED
    BY <1>1, SkipStep DEF SkipAvailable

LEMMA DispatchSetupStep ==
    ASSUME IInv, NEW c \in Context, NEW f \in Field, DispatchSetup(c, f)
    PROVE  IInv'
<1>0. f \in Step /\ f \notin Operator /\ KeyOf[f] \in Key
    BY ConstantsAssumption DEF Step
<1>1. \A d \in Context, t \in Step :
          phase'[d][t] = IF d = c /\ t = f THEN "DISPATCHED" ELSE phase[d][t]
    BY <1>0 DEF IInv, TypeOK, DispatchSetup
<1>2. LiveNew(c, f)
    BY <1>0, <1>1 DEF LiveNew, Live, LivePhase, DispatchSetup
<1>3. CacheTypeOK' /\ CacheInv'
    BY <1>2, DispatchSetupEffect DEF IInv, DispatchSetup
<1>4. TypeOK'
    BY <1>0, <1>3 DEF IInv, TypeOK, CacheTypeOK, coordVars, Phase, LivePhase, DispatchSetup
<1>5. OnlyContext(c)
    BY <1>1 DEF OnlyContext, InLoop, coordVars, IInv, TypeOK, DispatchSetup
<1>6. ContextOK(c)'
    <2>1. ContextOK(c) /\ run[c] = "RUNNING" /\ phase[c][f] = "READY"
        BY DEF IInv, DispatchSetup
    <2>2. \A k \in Key : Claims(c, k)' = Claims(c, k)
        BY <1>0, <1>1, <1>2, <2>1, ConstantsAssumption
        DEF Claims, LiveNew, Step, FieldsOf
    <2>3. \A g \in Field :
              phase'[c][g] # "DONE" => phase'[c][OperatorOf[g]] = "BLOCKED"
        BY <1>0, <1>1, <2>1, ConstantsAssumption DEF ContextOK, Step
    <2>4. /\ \A t \in {"PREPARE", "SETTLE", "UNPIN"} : ~InLoop(t, c)' /\ ~InLoop(t, c)
          /\ run' = run /\ ownedPins' = ownedPins
        BY DEF InLoop, coordVars, DispatchSetup, Coordinated, Idle
    <2> QED
        BY <2>1, <2>2, <2>3, <2>4 DEF ContextOK
<1>7. \A d \in Context : ContextOK(d)'
    BY <1>5, <1>6, OthersOK DEF IInv
<1>8. CoordinatorOK'
    BY <1>0 DEF IInv, TypeOK, CoordinatorOK, coordVars, InLoop, DispatchSetup, Coordinated, Idle
<1> QED
    BY <1>3, <1>4, <1>7, <1>8 DEF IInv

LEMMA DispatchOperatorStep ==
    ASSUME IInv, NEW c \in Context, NEW o \in Operator, DispatchOperator(c, o)
    PROVE  IInv'
<1>0. o \in Step /\ o \notin Field
    BY ConstantsAssumption DEF Step
<1>1. \A d \in Context, t \in Step :
          phase'[d][t] = IF d = c /\ t = o THEN "DISPATCHED" ELSE phase[d][t]
    BY <1>0 DEF IInv, TypeOK, DispatchOperator
<1>2. LiveNew(c, o)
    BY <1>0, <1>1 DEF LiveNew, Live, LivePhase, DispatchOperator
<1>3. CacheTypeOK' /\ CacheInv'
    BY <1>2, DispatchOperatorEffect DEF IInv, DispatchOperator
<1>4. TypeOK'
    BY <1>0, <1>3 DEF IInv, TypeOK, CacheTypeOK, coordVars, Phase, LivePhase, DispatchOperator
<1>5. OnlyContext(c)
    BY <1>1 DEF OnlyContext, InLoop, coordVars, IInv, TypeOK, DispatchOperator
<1>6. ContextOK(c)'
    <2>1. ContextOK(c) /\ run[c] = "RUNNING" /\ phase[c][o] = "READY"
        BY DEF IInv, DispatchOperator
    <2>2. \A f \in FieldsOf(o) : phase[c][f] = "DONE"
        BY <2>1 DEF ContextOK, FieldsOf
    <2>3. \A k \in Key : Claims(c, k)' = Claims(c, k)
        BY <1>0, <1>1, <1>2, <2>1, <2>2, ConstantsAssumption
        DEF Claims, LiveNew, Step, FieldsOf, KeysOf
    <2>4. \A g \in Field :
              phase'[c][g] # "DONE" => phase'[c][OperatorOf[g]] = "BLOCKED"
        BY <1>0, <1>1, <2>1, ConstantsAssumption DEF ContextOK, Step
    <2>5. /\ \A t \in {"PREPARE", "SETTLE", "UNPIN"} : ~InLoop(t, c)' /\ ~InLoop(t, c)
          /\ run' = run /\ ownedPins' = ownedPins
        BY DEF InLoop, coordVars, DispatchOperator, Coordinated, Idle
    <2> QED
        BY <2>1, <2>3, <2>4, <2>5 DEF ContextOK
<1>7. \A d \in Context : ContextOK(d)'
    BY <1>5, <1>6, OthersOK DEF IInv
<1>8. CoordinatorOK'
    BY DEF IInv, TypeOK, CoordinatorOK, coordVars, InLoop, DispatchOperator, Coordinated,
           Idle, Acquirable
<1> QED
    BY <1>3, <1>4, <1>7, <1>8 DEF IInv
-----------------------------------------------------------------------------
\* A setup that is collected: the data is in the cache and the step is done.
LEMMA CollectSetupStep ==
    ASSUME IInv, NEW c \in Context, NEW f \in Field, CollectSetup(c, f)
    PROVE  IInv'
<1> DEFINE k == KeyOf[f]
<1>0. k \in Key /\ f \in Step /\ Live(c, f) /\ phase[c][f] # "DONE"
    BY ConstantsAssumption DEF CollectSetup, Live, LivePhase, Step
<1>a. /\ phase' \in [Context -> [Step -> Phase]]
      /\ \A d \in Context \ {c} : phase'[d] = phase[d]
      /\ \A d \in Context, s \in Step :
             Live(d, s)' <=> Live(d, s) /\ <<d, s>> # <<c, f>>
      /\ \A j \in Key \ {k} : Claims(c, j)' = Claims(c, j)
      /\ Claims(c, k)' \subseteq Claims(c, k) \cup {OperatorOf[f]}
      /\ \A g \in Field : phase'[c][g] # "DONE" => phase'[c][OperatorOf[g]] = "BLOCKED"
    <2>1. Completes(c, f)
        BY DEF Completes, CollectSetup
    <2> QED
        BY <1>0, <2>1, CompleteStepFacts
<1>1. LiveGone(c, f)
    BY <1>0, <1>a DEF LiveGone
<1>2. CacheTypeOK' /\ CacheInv' /\ TeardownsSame
    BY <1>0, <1>1, LoadEffect DEF IInv, CollectSetup
<1>3. TypeOK'
    BY <1>a, <1>2 DEF IInv, TypeOK, CacheTypeOK, coordVars, CollectSetup
<1>4. OnlyContext(c)
    BY <1>a DEF OnlyContext, InLoop, coordVars, LoadResource, IInv, TypeOK, CollectSetup
<1>5. ContextOK(c)'
    <2>1. ContextOK(c) /\ run[c] \in {"RUNNING", "PAUSED"}
        BY DEF IInv, CollectSetup, Alive
    <2>2. \A j \in Key : ownedPins'[c][j] = IF j = k THEN ownedPins[c][j] + 1
                                                   ELSE ownedPins[c][j]
        BY DEF LoadResource, IInv, TypeOK, CollectSetup
    <2>3. \A t \in {"PREPARE", "SETTLE", "UNPIN"} : ~InLoop(t, c) /\ ~InLoop(t, c)'
        BY DEF InLoop, coordVars, CollectSetup, Collecting, Idle
    <2>4. \A j \in Key : Cardinality(Claims(c, j)') <= ownedPins'[c][j]
        <3> TAKE j \in Key
        <3>1. Cardinality(Claims(c, j)) <= ownedPins[c][j]
            BY <2>1, <2>3 DEF ContextOK
        <3>2. CASE j = k
            BY <3>1, <3>2, <1>a, <2>2, OneMoreClaim DEF IInv
        <3>3. CASE j # k
            BY <3>1, <3>3, <1>a, <2>2
        <3> QED
            BY <3>2, <3>3
    <2>5. run' = run
        BY DEF CollectSetup
    <2> QED
        BY <1>a, <2>1, <2>3, <2>4, <2>5 DEF ContextOK
<1>6. \A d \in Context : ContextOK(d)'
    BY <1>4, <1>5, OthersOK DEF IInv
<1>7. CoordinatorOK'
    BY <1>2 DEF IInv, CoordinatorOK, coordVars, InLoop, CollectSetup, TeardownsSame,
                Collecting, Idle
<1> QED
    BY <1>2, <1>3, <1>6, <1>7 DEF IInv

\* A session that ends for good, with or without giving up what it held.
Ends(c, s, p) ==
    /\ phase' = [phase EXCEPT ![c][s] = p]
    /\ \/ s \in Operator /\ p \in {"DONE", "DROPPED"} /\ ReleaseResources(c, s)
       \/ s \in Field /\ p = "DROPPED" /\ CancelRegistration(s)
       \/ s \in Field /\ p = "DROPPED" /\ LoadResource(c, s)

LEMMA SessionEnds ==
    ASSUME IInv, NEW c \in Context, NEW s \in Step, NEW p, Live(c, s), Ends(c, s, p)
    PROVE  /\ CacheTypeOK' /\ CacheInv' /\ TeardownsSame
           /\ phase' \in [Context -> [Step -> Phase]]
           /\ \A d \in Context \ {c} :
                  phase'[d] = phase[d] /\ ownedPins'[d] = ownedPins[d]
           /\ \A k \in Key : Cardinality(Claims(c, k)') <= ownedPins'[c][k]
           /\ \A f \in Field :
                  phase'[c][f] # "DONE" => phase'[c][OperatorOf[f]] = "BLOCKED"
           /\ run[c] \in {"RUNNING", "PAUSED", "DRAINING"}
<1>0. /\ ContextOK(c)
      /\ run[c] \in {"RUNNING", "PAUSED", "DRAINING"}
      /\ ~InLoop("UNPIN", c)
      /\ \A k \in Key : Cardinality(Claims(c, k)) <= ownedPins[c][k]
    BY DEF IInv, TypeOK, RunState, ContextOK
<1>1. /\ p \in {"DONE", "DROPPED"} /\ (p = "DONE" => s \in Operator)
      /\ \A d \in Context, t \in Step :
             phase'[d][t] = IF d = c /\ t = s THEN p ELSE phase[d][t]
      /\ \A d \in Context \ {c} : phase'[d] = phase[d]
      /\ phase' \in [Context -> [Step -> Phase]]
    BY ConstantsAssumption DEF IInv, TypeOK, Ends, Phase, Step
<1>2. LiveGone(c, s)
    BY <1>1 DEF LiveGone, Live, LivePhase
<1>3. \A f \in Field :
          phase'[c][f] # "DONE" => phase'[c][OperatorOf[f]] = "BLOCKED"
    <2> SUFFICES ASSUME NEW f \in Field, phase'[c][f] # "DONE"
                 PROVE  phase'[c][OperatorOf[f]] = "BLOCKED"
        OBVIOUS
    <2>0. f \in Step /\ OperatorOf[f] \in Operator /\ OperatorOf[f] \in Step
        BY ConstantsAssumption DEF Step
    <2>1. phase[c][f] # "DONE"
        BY <1>1, <2>0 DEF Live, LivePhase
    <2>2. phase[c][OperatorOf[f]] = "BLOCKED"
        BY <1>0, <2>1 DEF ContextOK
    <2>3. OperatorOf[f] # s
        BY <2>2 DEF Live, LivePhase
    <2> QED
        BY <1>1, <2>0, <2>2, <2>3
<1>4. CASE s \in Operator
    <2>1. ReleaseResources(c, s)
        BY <1>4, ConstantsAssumption DEF Ends
    <2>2. \A k \in Key : /\ Claims(c, k)' = Claims(c, k) \ {s}
                         /\ k \in KeysOf(s) <=> s \in Claims(c, k)
        BY <1>1, <1>2, <1>4, ConstantsAssumption
        DEF Claims, LiveGone, Live, LivePhase, Step, FieldsOf, KeysOf
    <2>3. \A k \in KeysOf(s) : ownedPins[c][k] > 0
        <3> TAKE k \in KeysOf(s)
        <3>1. k \in Key
            BY ConstantsAssumption DEF KeysOf, FieldsOf
        <3>2. Claims(c, k) # {}
            BY <2>2, <3>1
        <3> QED
            BY <1>0, <3>1, <3>2, ClaimIsPinned DEF IInv
    <2>4. CacheTypeOK' /\ CacheInv' /\ TeardownsSame
        BY <1>2, <1>4, <2>1, <2>3, ReleaseEffect DEF IInv
    <2>5. \A k \in Key :
              ownedPins'[c][k] = IF k \in KeysOf(s) THEN ownedPins[c][k] - 1
                                                    ELSE ownedPins[c][k]
        BY <2>1 DEF ReleaseResources, IInv, TypeOK
    <2>6. \A k \in Key : Cardinality(Claims(c, k)') <= ownedPins'[c][k]
        <3> TAKE k \in Key
        <3>1. CASE k \in KeysOf(s)
            BY <1>0, <2>2, <2>5, <3>1, OneClaimLess DEF IInv
        <3>2. CASE k \notin KeysOf(s)
            <4>1. Claims(c, k)' = Claims(c, k)
                BY <2>2, <3>2
            <4> QED
                BY <1>0, <2>5, <3>2, <4>1
        <3> QED
            BY <3>1, <3>2
    <2>7. \A d \in Context \ {c} : ownedPins'[d] = ownedPins[d]
        BY <2>1 DEF ReleaseResources, IInv, TypeOK
    <2> QED
        BY <1>0, <1>1, <1>3, <2>4, <2>6, <2>7
<1>5. CASE s \in Field
    <2>1. CancelRegistration(s) \/ LoadResource(c, s)
        BY <1>5, ConstantsAssumption DEF Ends
    <2>2. CacheTypeOK' /\ CacheInv' /\ TeardownsSame
        BY <1>2, <1>5, <2>1, CancelEffect, LoadEffect DEF IInv
    <2>3. p = "DROPPED"
        BY <1>1, <1>5, ConstantsAssumption
    <2>4. \A k \in Key : Claims(c, k)' \subseteq Claims(c, k)
        BY <1>1, <1>2, <1>5, <2>3, ConstantsAssumption
        DEF Claims, LiveGone, Step, FieldsOf
    <2>5. \A k \in Key : ownedPins'[c][k] \in Nat /\ ownedPins[c][k] <= ownedPins'[c][k]
        BY <1>5, <2>1, ConstantsAssumption
        DEF CancelRegistration, LoadResource, IInv, TypeOK
    <2>6. \A k \in Key : Cardinality(Claims(c, k)') <= ownedPins'[c][k]
        BY <1>0, <2>4, <2>5, FewerClaims DEF IInv
    <2>7. \A d \in Context \ {c} : ownedPins'[d] = ownedPins[d]
        BY <2>1 DEF CancelRegistration, LoadResource, IInv, TypeOK
    <2> QED
        BY <1>0, <1>1, <1>3, <2>2, <2>6, <2>7
<1> QED
    BY <1>4, <1>5 DEF Step

\* Every step that ends a session leaves the coordinator in the loop that
\* settles the session's context.
LEMMA EndedStep ==
    ASSUME IInv, NEW c \in Context, NEW s \in Step, NEW p, Live(c, s), Ends(c, s, p),
           \/ Idle /\ engine \in {"RUNNING", "EMERGENCY"} /\ Enter("SETTLE", c)
           \/ InLoop("SETTLE", c) /\ UNCHANGED <<task, subject>>,
           \/ UNCHANGED run
           \/ run' = [run EXCEPT ![c] = "DRAINING"],
           engine' \in {engine, "DEAD"},
           UNCHANGED <<iteration, unclosed>>
    PROVE  IInv'
<1>1. /\ CacheTypeOK' /\ CacheInv' /\ TeardownsSame
      /\ phase' \in [Context -> [Step -> Phase]]
      /\ \A d \in Context \ {c} : phase'[d] = phase[d] /\ ownedPins'[d] = ownedPins[d]
      /\ \A k \in Key : Cardinality(Claims(c, k)') <= ownedPins'[c][k]
      /\ \A f \in Field :
             phase'[c][f] # "DONE" => phase'[c][OperatorOf[f]] = "BLOCKED"
      /\ run[c] \in {"RUNNING", "PAUSED", "DRAINING"}
    BY SessionEnds
<1>2. run' \in [Context -> RunState] /\ run'[c] \in {"RUNNING", "PAUSED", "DRAINING"}
      /\ \A d \in Context \ {c} : run'[d] = run[d]
    BY <1>1 DEF IInv, TypeOK, RunState
<1>3. InLoop("SETTLE", c)'
    BY DEF InLoop, Enter
<1>4. TypeOK'
    BY <1>1, <1>2 DEF IInv, TypeOK, CacheTypeOK, Enter, Task, EngineState
<1>5. OnlyContext(c)
    BY <1>1, <1>2 DEF OnlyContext, InLoop, Enter, Idle
<1>6. ContextOK(c)'
    BY <1>1, <1>2, <1>3 DEF ContextOK, InLoop
<1>7. \A d \in Context : ContextOK(d)'
    BY <1>5, <1>6, OthersOK DEF IInv
<1>8. CoordinatorOK'
    <2>1. ~(engine \in {"CLOSING", "CLOSED"}) /\ ~(engine' \in {"CLOSING", "CLOSED"})
        BY DEF IInv, CoordinatorOK, InLoop
    <2>2. \A k \in Key : state'[k] = "UNLOADING" <=> InLoop("TEARDOWN", k)'
        BY <1>1, <1>3 DEF IInv, CoordinatorOK, TeardownsSame, InLoop, Idle
    <2> QED
        BY <2>1, <2>2 DEF CoordinatorOK
<1> QED
    BY <1>1, <1>4, <1>7, <1>8 DEF IInv

LEMMA DrainEnded ==
    ASSUME NEW c \in Context, NEW s \in Step, DrainSession(c, s)
    PROVE  Ends(c, s, "DROPPED")
BY DEF DrainSession, GiveBack, Ends, Step

LEMMA ReportedIsLive ==
    ASSUME NEW c \in Context, NEW s \in Step,
           phase[c][s] \in {"FINISHED", "FAILED", "UNAVAILABLE", "ABANDONED"}
    PROVE  Live(c, s)
BY DEF Live, LivePhase

LEMMA CollectDrainingStep ==
    ASSUME IInv, NEW c \in Context, NEW s \in Step, CollectDraining(c, s)
    PROVE  IInv'
<1>1. Live(c, s) /\ Ends(c, s, "DROPPED")
    BY DrainEnded, ReportedIsLive DEF CollectDraining, Reported
<1> QED
    BY <1>1, EndedStep DEF CollectDraining, Collecting

LEMMA DrainUndispatchedStep ==
    ASSUME IInv, NEW c \in Context, NEW s \in Step, DrainUndispatched(c, s)
    PROVE  IInv'
<1>1. Live(c, s) /\ Ends(c, s, "DROPPED")
    BY DrainEnded DEF DrainUndispatched, Undispatched, LiveSessions
<1>2. InLoop("SETTLE", c) /\ UNCHANGED <<run, iteration, coordVars>>
    BY DEF DrainUndispatched
<1>3. engine' \in {engine, "DEAD"} /\ UNCHANGED <<task, subject, unclosed, run, iteration>>
    BY <1>2 DEF coordVars
<1> QED
    BY <1>1, <1>2, <1>3, EndedStep

LEMMA CollectFailedStep ==
    ASSUME IInv, NEW c \in Context, NEW s \in Step, CollectFailed(c, s)
    PROVE  IInv'
<1>1. Live(c, s) /\ Ends(c, s, "DROPPED")
    BY ReportedIsLive DEF CollectFailed, GiveBack, Ends
<1> QED
    BY <1>1, EndedStep DEF CollectFailed, Collecting

LEMMA CollectOperatorStep ==
    ASSUME IInv, NEW c \in Context, NEW o \in Operator, CollectOperator(c, o)
    PROVE  IInv'
<1>1. o \in Step /\ Live(c, o) /\ Ends(c, o, "DONE")
    BY ReportedIsLive DEF CollectOperator, Ends, Step
<1> QED
    BY <1>1, EndedStep DEF CollectOperator, Collecting

LEMMA CollectBrokenStep ==
    ASSUME IInv, NEW c \in Context, NEW o \in Operator, CollectBroken(c, o)
    PROVE  IInv'
<1>1. o \in Step /\ Live(c, o) /\ Ends(c, o, "DROPPED")
    BY ReportedIsLive DEF CollectBroken, Ends, Step
<1> QED
    BY <1>1, EndedStep DEF CollectBroken, Collecting

LEMMA SessionStepOK ==
    ASSUME IInv, NEW c \in Context, NEW s \in Step, SessionStep(c, s)
    PROVE  IInv'
<1>1. CASE Redispatch(c, s)
    <2>1. Live(c, s) /\ "DISPATCHED" \in LivePhase
        BY <1>1 DEF Redispatch, Live, LivePhase
    <2> QED
        BY <1>1, <2>1, SessionMoves DEF Redispatch
<1>2. CASE Report(c, s)
    <2>1. PICK p \in LivePhase : phase' = [phase EXCEPT ![c][s] = p]
        BY <1>2 DEF Report, LivePhase
    <2>2. Live(c, s)
        BY <1>2 DEF Report, Live, LivePhase
    <2> QED
        BY <1>2, <2>1, <2>2, SessionMoves DEF Report
<1>3. CASE ResolvePlacement(c, s)
    <2>1. Live(c, s) /\ "RESCHEDULED" \in LivePhase
        BY <1>3 DEF ResolvePlacement, Live, LivePhase
    <2> QED
        BY <1>3, <2>1, SessionMoves DEF ResolvePlacement
<1>4. CASE CollectWaiting(c, s)
    <2>1. Live(c, s) /\ "WAITING" \in LivePhase
        BY <1>4 DEF CollectWaiting, Live, LivePhase
    <2> QED
        BY <1>4, <2>1, SessionMoves DEF CollectWaiting
<1>5. CASE CollectRepeat(c, s)
    <2>1. Live(c, s) /\ "RESCHEDULED" \in LivePhase
        BY <1>5 DEF CollectRepeat, Live, LivePhase
    <2> QED
        BY <1>5, <2>1, SessionMoves DEF CollectRepeat
<1> QED
    BY <1>1, <1>2, <1>3, <1>4, <1>5, CollectDrainingStep, CollectFailedStep,
       DrainUndispatchedStep DEF SessionStep
-----------------------------------------------------------------------------
LEMMA RegisterStep ==
    ASSUME IInv, NEW c \in Context, Register(c)
    PROVE  IInv'
<1>1. PICK missing \in SUBSET Graph[c] :
          phase' = [phase EXCEPT ![c] = FreshPhases(c, missing)]
    BY DEF Register
<1>2. /\ \A s \in Step : ~Live(c, s)
      /\ iteration' \in [Context -> 0 .. MaxIteration]
    BY ConstantsAssumption DEF Register, IInv, ContextOK, TypeOK
<1> QED
    BY <1>1, <1>2, IterationStarts DEF Register, Coordinated

LEMMA FinishIterationStep ==
    ASSUME IInv, NEW c \in Context, FinishIteration(c)
    PROVE  IInv'
<1>1. \A s \in Step : ~Live(c, s)
    BY DEF FinishIteration, AllDone, Live, LivePhase
<1>2. CASE /\ iteration[c] < MaxIteration
           /\ iteration' = [iteration EXCEPT ![c] = @ + 1]
           /\ \E missing \in SUBSET Graph[c] :
                  phase' = [phase EXCEPT ![c] = FreshPhases(c, missing)]
           /\ Enter("PREPARE", c)
    <2>1. PICK missing \in SUBSET Graph[c] :
              phase' = [phase EXCEPT ![c] = FreshPhases(c, missing)]
        BY <1>2
    <2>2. iteration' \in [Context -> 0 .. MaxIteration]
        BY <1>2, ConstantsAssumption DEF IInv, TypeOK
    <2> QED
        BY <1>1, <1>2, <2>1, <2>2, IterationStarts DEF FinishIteration
<1>3. CASE Enter("UNPIN", c) /\ UNCHANGED <<phase, iteration>>
    BY <1>1, <1>3, LoopMoves DEF FinishIteration
<1> QED
    BY <1>2, <1>3 DEF FinishIteration

LEMMA ContextStepOK ==
    ASSUME IInv, NEW c \in Context, ContextStep(c)
    PROVE  IInv'
<1>1. CASE Prepared(c)
    BY <1>1, LoopMoves DEF Prepared
<1>2. CASE Visit(c)
    BY <1>2, LoopMoves DEF Visit, Collecting
<1>3. CASE FinishDrain(c)
    <2>1. CASE LiveSessions(c) = {}
        <3>1. \A s \in Step : ~Live(c, s)
            BY <2>1 DEF LiveSessions
        <3> QED
            BY <1>3, <2>1, <3>1, LoopMoves DEF FinishDrain
    <2>2. CASE LiveSessions(c) # {}
        BY <1>3, <2>2, LoopMoves DEF FinishDrain
    <2> QED
        BY <2>1, <2>2
<1>4. CASE NothingToSettle(c)
    BY <1>4, LoopMoves DEF NothingToSettle
<1>5. CASE Finalize(c)
    BY <1>5, LoopMoves DEF Finalize
<1>6. CASE Start(c) \/ Pause(c) \/ Resume(c) \/ Abort(c)
    BY <1>6, SetRunStep DEF Start, Pause, Resume, Abort
<1> QED
    BY <1>1, <1>2, <1>3, <1>4, <1>5, <1>6, RegisterStep, FinishIterationStep
    DEF ContextStep

LEMMA UnpinStep ==
    ASSUME IInv, NEW c \in Context, NEW k \in Key, Unpin(c, k)
    PROVE  IInv'
<1>1. LiveSame
    BY DEF LiveSame, Live, Unpin
<1>2. CacheTypeOK' /\ CacheInv'
    BY <1>1, UnpinEffect DEF IInv, Unpin
<1>3. TypeOK'
    BY <1>2 DEF IInv, TypeOK, CacheTypeOK, coordVars, Unpin
<1>4. OnlyContext(c)
    BY DEF OnlyContext, InLoop, coordVars, IInv, TypeOK, Unpin
<1>5. ContextOK(c)'
    <2>1. /\ ContextOK(c) /\ InLoop("UNPIN", c) /\ InLoop("UNPIN", c)'
          /\ run' = run /\ phase' = phase
        BY DEF IInv, Unpin, coordVars, InLoop
    <2>2. run[c] \in {"RUNNING", "DRAINING"} /\ \A s \in Step : ~Live(c, s)
        BY <2>1 DEF ContextOK
    <2> QED
        BY <1>1, <2>1, <2>2 DEF ContextOK, InLoop, LiveSame
<1>6. \A d \in Context : ContextOK(d)'
    BY <1>4, <1>5, OthersOK DEF IInv
<1>7. CoordinatorOK'
    BY DEF IInv, CoordinatorOK, coordVars, InLoop, Unpin
<1> QED
    BY <1>2, <1>3, <1>6, <1>7 DEF IInv
-----------------------------------------------------------------------------
\* A teardown touches no context.
LEMMA ContextsUntouched ==
    ASSUME IInv, UNCHANGED <<ownedPins, phase, run>>,
           task \in {"IDLE", "TEARDOWN"}, task' \in {"IDLE", "TEARDOWN"}
    PROVE  \A d \in Context : ContextOK(d)'
<1> SUFFICES ASSUME NEW d \in Context PROVE ContextOK(d)'
    OBVIOUS
<1>1. /\ \A s \in Step : Live(d, s)' <=> Live(d, s)
      /\ \A k \in Key : Claims(d, k)' = Claims(d, k)
    BY DEF Live, Claims
<1>2. \A t \in {"PREPARE", "SETTLE", "UNPIN"} : ~InLoop(t, d) /\ ~InLoop(t, d)'
    BY DEF InLoop
<1>3. phase' = phase /\ ownedPins' = ownedPins /\ run' = run
    OBVIOUS
<1> QED
    BY <1>1, <1>2, <1>3 DEF IInv, ContextOK

LEMMA PhasesUntouched ==
    ASSUME UNCHANGED phase
    PROVE  LiveSame
BY DEF LiveSame, Live

LEMMA BeginUnloadStep ==
    ASSUME IInv, NEW k \in Key, Idle, engine \in {"RUNNING", "CLOSING"},
           BeginUnload(k), unclosed' \subseteq Key
    PROVE  IInv'
<1>1. CacheTypeOK' /\ CacheInv'
    BY PhasesUntouched, TeardownEffect DEF IInv, BeginUnload
<1>2. TypeOK'
    BY <1>1 DEF IInv, TypeOK, CacheTypeOK, BeginUnload, Enter, Task
<1>3. \A d \in Context : ContextOK(d)'
    BY ContextsUntouched DEF BeginUnload, Enter, Idle
<1>4. CoordinatorOK'
    BY DEF IInv, TypeOK, CoordinatorOK, BeginUnload, Enter, InLoop, Idle
<1> QED
    BY <1>1, <1>2, <1>3, <1>4 DEF IInv

LEMMA TeardownStep ==
    ASSUME IInv, NEW k \in Key, InLoop("TEARDOWN", k), NEW to \in {"ABSENT", "READY"},
           state' = [state EXCEPT ![k] = to], Leave, engine' \in {engine, "DEAD"},
           UNCHANGED <<pinCount, userCount, ownedPins, phase, run, iteration, unclosed>>
    PROVE  IInv'
<1>1. state[k] = "UNLOADING"
    BY DEF IInv, CoordinatorOK
<1>2. CacheTypeOK' /\ CacheInv'
    BY <1>1, PhasesUntouched, TeardownEffect DEF IInv
<1>3. TypeOK'
    BY <1>2 DEF IInv, TypeOK, CacheTypeOK, Leave, Enter, Task, EngineState
<1>4. \A d \in Context : ContextOK(d)'
    BY ContextsUntouched DEF Leave, Enter, InLoop
<1>5. CoordinatorOK'
    BY DEF IInv, TypeOK, CoordinatorOK, Leave, Enter, InLoop
<1> QED
    BY <1>2, <1>3, <1>4, <1>5 DEF IInv

LEMMA CloseStep ==
    ASSUME IInv, NEW k \in Key, Close(k)
    PROVE  IInv'
<1>0. engine = "CLOSING" /\ Idle /\ unclosed' \subseteq Key
    BY DEF Close, IInv, TypeOK
<1>1. CASE BeginUnload(k)
    BY <1>0, <1>1, BeginUnloadStep
<1>2. CASE /\ state' = IF state[k] = "LOADING" THEN [state EXCEPT ![k] = "ABSENT"]
                       ELSE state
           /\ UNCHANGED <<pinCount, userCount, ownedPins, phase, run, iteration,
                          engine, task, subject>>
    <2>1. \A c \in Context : run[c] \in {"NEW", "DONE"}
        BY <1>0 DEF IInv, CoordinatorOK
    <2>2. Loaders(k) = {}
        BY <2>1, ConstantsAssumption DEF Loaders, IInv, ContextOK, Step
    <2>3. state[k] # "LOADING"
        BY <2>2 DEF IInv, CacheInv, SingleLoader
    <2>4. UNCHANGED <<cacheVars, ownedPins, phase>>
        BY <1>2, <2>3 DEF cacheVars
    <2>5. CacheTypeOK' /\ CacheInv'
        BY <2>4, NoPhaseMoves
    <2>6. TypeOK'
        BY <1>0, <1>2, <2>5 DEF IInv, TypeOK, CacheTypeOK
    <2>7. \A d \in Context : ContextOK(d)'
        BY <1>0, <1>2, ContextsUntouched DEF Idle
    <2>8. CoordinatorOK'
        BY <1>2, <2>3 DEF IInv, CoordinatorOK, InLoop
    <2> QED
        BY <2>5, <2>6, <2>7, <2>8 DEF IInv
<1> QED
    BY <1>1, <1>2 DEF Close

LEMMA KeyStepOK ==
    ASSUME IInv, NEW k \in Key, KeyStep(k)
    PROVE  IInv'
<1>1. CASE Evict(k)
    <2>1. unclosed' \subseteq Key
        BY <1>1 DEF Evict, IInv, TypeOK
    <2> QED
        BY <1>1, <2>1, BeginUnloadStep DEF Evict, Coordinated
<1>2. CASE TeardownDone(k)
    BY <1>2, TeardownStep DEF TeardownDone
<1>3. CASE TeardownFailed(k)
    BY <1>3, TeardownStep DEF TeardownFailed
<1> QED
    BY <1>1, <1>2, <1>3, CloseStep DEF KeyStep

LEMMA PrepareEmergencyStep ==
    ASSUME IInv, PrepareEmergency
    PROVE  IInv'
<1>0. UNCHANGED <<cacheVars, ownedPins, phase>>
    BY DEF PrepareEmergency
<1>1. /\ CacheTypeOK' /\ CacheInv'
      /\ \A d \in Context :
             /\ \A s \in Step : Live(d, s)' <=> Live(d, s)
             /\ \A k \in Key : Claims(d, k)' = Claims(d, k)
    BY <1>0, NoPhaseMoves
<1>2. TypeOK'
    BY <1>1 DEF IInv, TypeOK, CacheTypeOK, PrepareEmergency, EngineState, RunState
<1>3. ASSUME NEW d \in Context PROVE ContextOK(d)'
    <2>1. ContextOK(d) /\ phase' = phase /\ ownedPins' = ownedPins
        BY DEF IInv, PrepareEmergency
    <2>2. run'[d] = IF run[d] \in {"NEW", "DONE"} THEN run[d] ELSE "DRAINING"
        BY DEF PrepareEmergency
    <2>3. \A t \in {"PREPARE", "SETTLE", "UNPIN"} : ~InLoop(t, d) /\ ~InLoop(t, d)'
        BY DEF PrepareEmergency, InLoop, Idle
    <2> QED
        BY <1>1, <2>1, <2>2, <2>3 DEF ContextOK
<1>4. CoordinatorOK'
    BY DEF IInv, CoordinatorOK, PrepareEmergency, InLoop, cacheVars
<1> QED
    BY <1>1, <1>2, <1>3, <1>4 DEF IInv

LEMMA ShutdownStep ==
    ASSUME IInv, BeginClose \/ EndClose
    PROVE  IInv'
<1>0. /\ UNCHANGED <<cacheVars, ownedPins, phase, run, iteration, task, subject>>
      /\ task = "IDLE"
      /\ unclosed' \subseteq Key /\ engine' \in {"CLOSING", "CLOSED"}
      /\ \A c \in Context : run[c] \in {"NEW", "DONE"}
    BY DEF BeginClose, EndClose, IInv, TypeOK, CoordinatorOK, Collecting, Idle
<1>1. CacheTypeOK' /\ CacheInv'
    BY <1>0, NoPhaseMoves
<1>2. TypeOK'
    BY <1>0, <1>1 DEF IInv, TypeOK, CacheTypeOK, EngineState
<1>3. \A d \in Context : ContextOK(d)'
    BY <1>0, ContextsUntouched
<1>4. CoordinatorOK'
    BY <1>0 DEF IInv, CoordinatorOK, InLoop, cacheVars
<1> QED
    BY <1>1, <1>2, <1>3, <1>4 DEF IInv

LEMMA StutterStep ==
    ASSUME IInv, UNCHANGED vars
    PROVE  IInv'
<1>0. UNCHANGED <<cacheVars, ownedPins, phase>> /\ UNCHANGED <<run, iteration, coordVars>>
    BY DEF vars, cacheVars, coordVars
<1>1. /\ CacheTypeOK' /\ CacheInv'
      /\ \A d \in Context :
             /\ \A s \in Step : Live(d, s)' <=> Live(d, s)
             /\ \A k \in Key : Claims(d, k)' = Claims(d, k)
    BY <1>0, NoPhaseMoves
<1>2. TypeOK'
    BY <1>0, <1>1 DEF IInv, TypeOK, CacheTypeOK, coordVars
<1>3. \A d \in Context : ContextOK(d)'
    BY <1>0, <1>1 DEF IInv, ContextOK, InLoop, coordVars
<1>4. CoordinatorOK'
    BY <1>0 DEF IInv, CoordinatorOK, InLoop, cacheVars, coordVars
<1> QED
    BY <1>1, <1>2, <1>3, <1>4 DEF IInv
-----------------------------------------------------------------------------
LEMMA InitOK == Init => IInv
<1> SUFFICES ASSUME Init PROVE IInv
    OBVIOUS
<1>1. TypeOK
    BY ConstantsAssumption DEF Init, TypeOK, ResourceState, Phase, RunState, EngineState, Task
<1>2. \A c \in Context, s \in Step : ~Live(c, s)
    BY DEF Init, Live, LivePhase
<1>3. \A k \in Key : Holders(k) = {} /\ Loaders(k) = {}
    BY <1>2, ConstantsAssumption DEF Holders, Loaders, Step
<1>4. \A k \in Key : PinTokens(k) = {}
    BY <1>1, Pinned DEF Init
<1>5. CacheInv
    BY <1>3, <1>4, FS_EmptySet
    DEF Init, CacheInv, PinsAccounted, UsersAccounted, PinnedIsLoaded, ExclusiveUse,
        SingleLoader
<1>6. ASSUME NEW c \in Context PROVE ContextOK(c)
    <2>1. \A k \in Key : Claims(c, k) = {}
        BY <1>2, ConstantsAssumption DEF Init, Claims, Step, FieldsOf
    <2>2. \A k \in Key : Cardinality(Claims(c, k)) <= ownedPins[c][k]
        <3> TAKE k \in Key
        <3>1. Cardinality(Claims(c, k)) = 0 /\ ownedPins[c][k] = 0
            BY <2>1, FS_EmptySet DEF Init
        <3> QED
            BY <3>1
    <2> QED
        BY <1>2, <2>2, ConstantsAssumption DEF Init, ContextOK, InLoop, Step
<1>7. CoordinatorOK
    BY DEF Init, CoordinatorOK, InLoop
<1> QED
    BY <1>1, <1>5, <1>6, <1>7 DEF IInv

LEMMA NextOK == IInv /\ [Next]_vars => IInv'
<1> SUFFICES ASSUME IInv, [Next]_vars PROVE IInv'
    OBVIOUS
<1>1. ASSUME NEW c \in Context, NEW f \in Field, SetupStep(c, f) PROVE IInv'
    BY <1>1, PrepareResourceStep, SkipAvailableStep, DispatchSetupStep, CollectSetupStep
    DEF SetupStep
<1>2. ASSUME NEW c \in Context, NEW o \in Operator, OperatorStep(c, o) PROVE IInv'
    BY <1>2, DispatchOperatorStep, CollectOperatorStep, CollectBrokenStep DEF OperatorStep
<1>3. CASE Closed \/ UNCHANGED vars
    BY <1>3, StutterStep DEF Closed
<1> QED
    BY <1>1, <1>2, <1>3, ContextStepOK, SessionStepOK, UnpinStep, KeyStepOK,
       PrepareEmergencyStep, ShutdownStep DEF Next

\* The cache, the contexts and the coordinator agree in every reachable state.
THEOREM Invariance == Spec => []IInv
BY InitOK, NextOK, PTL DEF Spec

\* Every variable keeps its type; in particular no count becomes negative, so
\* unpin and release never raise.
THEOREM TypeCorrect == Spec => []TypeOK
<1>1. IInv => TypeOK
    BY DEF IInv
<1> QED
    BY <1>1, Invariance, PTL

\* The pin count of a resource is the number of pins its contexts own.
THEOREM PinsAreAccounted == Spec => []PinsAccounted
<1>1. IInv => PinsAccounted
    BY DEF IInv, CacheInv
<1> QED
    BY <1>1, Invariance, PTL

\* The user count of a resource is the number of sessions that acquired it.
THEOREM UsersAreAccounted == Spec => []UsersAccounted
<1>1. IInv => UsersAccounted
    BY DEF IInv, CacheInv
<1> QED
    BY <1>1, Invariance, PTL

\* No pinned resource is torn down.
THEOREM PinnedStaysLoaded == Spec => []PinnedIsLoaded
<1>1. IInv => PinnedIsLoaded
    BY DEF IInv, CacheInv
<1> QED
    BY <1>1, Invariance, PTL

\* A context owns a pin of its own for each operator that was promised the
\* resource.
THEOREM ClaimsArePinned == Spec => []ClaimsPinned
<1>1. IInv => ClaimsPinned
    BY DEF IInv, ContextOK, ClaimsPinned
<1> QED
    BY <1>1, Invariance, PTL

\* A resource that is not parallel safe never has two users.
THEOREM ExclusiveIsExclusive == Spec => []ExclusiveUse
<1>1. IInv => ExclusiveUse
    BY DEF IInv, CacheInv
<1> QED
    BY <1>1, Invariance, PTL

\* A resource is set up by one session at a time, and no entry is left LOADING
\* by a session that is gone.
THEOREM LoaderIsUnique == Spec => []SingleLoader
<1>1. IInv => SingleLoader
    BY DEF IInv, CacheInv
<1> QED
    BY <1>1, Invariance, PTL

\* The resource manager closes without an active entry.
THEOREM CloseIsClean == Spec => []ClosedClean
<1>1. IInv => ClosedClean
    <2> SUFFICES ASSUME IInv, engine \in {"CLOSING", "CLOSED"}, NEW k \in Key
                 PROVE  /\ state[k] \in {"ABSENT", "READY", "UNLOADING"}
                        /\ pinCount[k] = 0
        BY DEF ClosedClean
    <2>1. \A c \in Context : run[c] \in {"NEW", "DONE"} /\ ContextOK(c)
        BY DEF IInv, CoordinatorOK
    <2>2. \A c \in Context : /\ \A s \in Step : ~Live(c, s)
                             /\ ownedPins[c][k] = 0
        BY <2>1 DEF ContextOK
    <2>3. Holders(k) = {} /\ Loaders(k) = {}
        BY <2>2, ConstantsAssumption DEF Holders, Loaders, Step
    <2>4. state[k] # "IN_USE" /\ state[k] # "LOADING"
        BY <2>3 DEF IInv, CacheInv, UsersAccounted, SingleLoader
    <2>5. PinTokens(k) = {}
        BY <2>2, Pinned DEF IInv
    <2>6. pinCount[k] = 0
        BY <2>5, FS_EmptySet DEF IInv, CacheInv, PinsAccounted
    <2> QED
        BY <2>4, <2>6 DEF IInv, TypeOK, ResourceState
<1> QED
    BY <1>1, Invariance, PTL

\* Data returned by a setup is in the cache when its session ends.
THEOREM SetupIsNeverLost == Spec => SetupNeverLost
<1> DEFINE Kept == \A c \in Context, f \in Field :
                      phase[c][f] = "FINISHED" /\ phase'[c][f] # "FINISHED"
                          => state'[KeyOf[f]] = "READY"
<1>1. IInv /\ [Next]_vars => [Kept]_vars
    <2> SUFFICES ASSUME IInv, Next, NEW c \in Context, NEW f \in Field,
                        phase[c][f] = "FINISHED", phase'[c][f] # "FINISHED"
                 PROVE  state'[KeyOf[f]] = "READY"
        OBVIOUS
    <2>a. f \in Step /\ f \notin Operator /\ KeyOf[f] \in Key
        BY ConstantsAssumption DEF Step
    <2>b. Live(c, f)
        BY DEF Live, LivePhase
    <2>c. /\ phase \in [Context -> [Step -> Phase]]
          /\ state \in [Key -> ResourceState]
        BY DEF IInv, TypeOK
    <2>d. ContextOK(c)
        BY DEF IInv
    <2>e. run[c] \notin {"NEW", "QUEUED", "DONE"}
        BY <2>a, <2>b, <2>d DEF ContextOK
    <2>0. /\ f \in Step /\ f \notin Operator /\ KeyOf[f] \in Key
          /\ Live(c, f) /\ phase \in [Context -> [Step -> Phase]]
          /\ state \in [Key -> ResourceState]
          /\ run[c] \notin {"NEW", "QUEUED", "DONE"}
        BY <2>a, <2>b, <2>c, <2>e
    <2>1. ASSUME NEW d \in Context, NEW g \in Field, SetupStep(d, g)
          PROVE  state'[KeyOf[f]] = "READY"
        <3>1. CASE CollectSetup(d, g)
            <4>1. OperatorOf[g] # f /\ g \in Step
                BY ConstantsAssumption DEF Step
            <4>2. d = c /\ g = f
                BY <2>0, <3>1, <4>1 DEF CollectSetup, CompleteStep
            <4> QED
                BY <2>0, <3>1, <4>2 DEF CollectSetup, LoadResource
        <3>2. CASE PrepareResource(d, g) \/ SkipAvailable(d, g)
            <4>1. OperatorOf[g] # f /\ g \in Step
                BY ConstantsAssumption DEF Step
            <4>2. \/ phase' = [phase EXCEPT ![d] = CompleteStep(@, g)]
                  \/ phase' = [phase EXCEPT ![d][g] = "READY"]
                BY <3>2 DEF PrepareResource, SkipAvailable
            <4>3. d = c /\ g = f
                BY <2>0, <4>1, <4>2 DEF CompleteStep
            <4> QED
                BY <3>2, <4>3 DEF PrepareResource, SkipAvailable
        <3>3. CASE DispatchSetup(d, g)
            BY <2>0, <3>3 DEF DispatchSetup
        <3> QED
            BY <2>1, <3>1, <3>2, <3>3 DEF SetupStep
    <2>2. ASSUME NEW d \in Context, NEW s \in Step, SessionStep(d, s)
          PROVE  state'[KeyOf[f]] = "READY"
        <3>1. s = f /\ d = c
            BY <2>0, <2>2 DEF SessionStep, Redispatch, Report, ResolvePlacement,
                 CollectDraining, CollectWaiting, CollectRepeat, CollectFailed,
                 DrainUndispatched, DrainSession
        <3>2. CollectDraining(c, f) \/ DrainUndispatched(c, f)
            BY <2>0, <2>2, <3>1 DEF SessionStep, Redispatch, Report, ResolvePlacement,
                 CollectWaiting, CollectRepeat, CollectFailed
        <3> QED
            BY <2>0, <3>2 DEF CollectDraining, DrainUndispatched, DrainSession, LoadResource
    <2>3. ASSUME NEW d \in Context, NEW o \in Operator, OperatorStep(d, o)
          PROVE  FALSE
        BY <2>0, <2>3 DEF OperatorStep, DispatchOperator, CollectOperator, CollectBroken
    <2>4. ASSUME NEW d \in Context, ContextStep(d)
          PROVE  FALSE
        <3>1. CASE Register(d)
            BY <2>0, <3>1 DEF Register
        <3>2. CASE FinishIteration(d)
            <4>1. d # c
                BY <2>0, <3>2 DEF FinishIteration, AllDone
            <4> QED
                BY <2>0, <3>2, <4>1 DEF FinishIteration
        <3> QED
            BY <2>0, <2>4, <3>1, <3>2 DEF ContextStep, Prepared, Start, Pause, Resume,
                 Abort, SetRun, Visit, FinishDrain, NothingToSettle, Finalize
    <2>5. ASSUME NEW d \in Context, NEW k \in Key, Unpin(d, k)
          PROVE  FALSE
        BY <2>5 DEF Unpin
    <2>6. ASSUME NEW k \in Key, KeyStep(k)
          PROVE  FALSE
        BY <2>6 DEF KeyStep, Evict, BeginUnload, TeardownDone, TeardownFailed, Close
    <2>7. CASE PrepareEmergency \/ BeginClose \/ EndClose \/ Closed
        BY <2>7 DEF PrepareEmergency, BeginClose, EndClose, Closed, vars
    <2> QED
        BY <2>1, <2>2, <2>3, <2>4, <2>5, <2>6, <2>7 DEF Next
<1> QED
    BY <1>1, Invariance, PTL DEF Spec, SetupNeverLost

-----------------------------------------------------------------------------
(* ResourceCache implements ResourceLifecycle: the proof behind              *)
(* ImplementsLifecycle                                                       *)

\* The refinement mapping, key by key.
StageOf(k) == IF state[k] \in {"READY", "IN_USE"} THEN "LOADED" ELSE state[k]
KeepersOf(k) == {c \in Context : ownedPins[c][k] > 0}

\* One key's part of an abstract step, in terms of the mapping.
Reaches(k, s, kept, used) ==
    StageOf(k)' = s /\ KeepersOf(k)' = kept /\ Holders(k)' = used

Stays(k) == Reaches(k, StageOf(k), KeepersOf(k), Holders(k))

KeyMoves(k) == Lifecycle!KeyNext(k) \/ Stays(k)

LEMMA MovesImplyNext ==
    ASSUME \A k \in Key : KeyMoves(k)
    PROVE  Lifecycle!Next
BY DEF KeyMoves, Stays, Reaches, StageOf, KeepersOf, Lifecycle!Next, Lifecycle!Becomes

LEMMA SetupMoves ==
    ASSUME NEW k \in Key, StageOf(k) = "ABSENT", Reaches(k, "LOADING", {}, {})
    PROVE  KeyMoves(k)
<1>1. Lifecycle!Setup(k)
    BY DEF Reaches, StageOf, KeepersOf, Lifecycle!Setup, Lifecycle!Becomes
<1> QED
    BY <1>1 DEF KeyMoves, Lifecycle!KeyNext

LEMMA SetupFailsMoves ==
    ASSUME NEW k \in Key, StageOf(k) = "LOADING", Reaches(k, "ABSENT", {}, {})
    PROVE  KeyMoves(k)
<1>1. Lifecycle!SetupFails(k)
    BY DEF Reaches, StageOf, KeepersOf, Lifecycle!SetupFails, Lifecycle!Becomes
<1> QED
    BY <1>1 DEF KeyMoves, Lifecycle!KeyNext

LEMMA SetupEndsMoves ==
    ASSUME NEW k \in Key, NEW c \in Context,
           StageOf(k) = "LOADING", Reaches(k, "LOADED", {c}, {})
    PROVE  KeyMoves(k)
<1>1. Lifecycle!SetupEnds(k)
    BY DEF Reaches, StageOf, KeepersOf, Lifecycle!SetupEnds, Lifecycle!Becomes
<1> QED
    BY <1>1 DEF KeyMoves, Lifecycle!KeyNext

LEMMA KeepMoves ==
    ASSUME NEW k \in Key, NEW c \in Context, StageOf(k) = "LOADED",
           Reaches(k, "LOADED", KeepersOf(k) \cup {c}, Holders(k))
    PROVE  KeyMoves(k)
<1>1. Lifecycle!Keep(k)
    BY DEF Reaches, StageOf, KeepersOf, Lifecycle!Keep, Lifecycle!Becomes
<1> QED
    BY <1>1 DEF KeyMoves, Lifecycle!KeyNext

LEMMA UseMoves ==
    ASSUME NEW k \in Key, NEW c \in Context, NEW o \in Operator,
           StageOf(k) = "LOADED", k \in ParallelSafe \/ Holders(k) = {},
           <<c, o>> \notin Holders(k), c \in KeepersOf(k),
           Reaches(k, "LOADED", KeepersOf(k), Holders(k) \cup {<<c, o>>})
    PROVE  KeyMoves(k)
<1>1. Lifecycle!Use(k)
    <2>1. <<c, o>> \in (Context \X Operator) \ Holders(k)
        OBVIOUS
    <2> QED
        BY <2>1 DEF Reaches, StageOf, KeepersOf, Lifecycle!Use, Lifecycle!Becomes
<1> QED
    BY <1>1 DEF KeyMoves, Lifecycle!KeyNext

LEMMA ReturnMoves ==
    ASSUME NEW k \in Key, NEW c \in Context, NEW o \in Operator,
           StageOf(k) = "LOADED", <<c, o>> \in Holders(k),
           \/ Reaches(k, "LOADED", KeepersOf(k), Holders(k) \ {<<c, o>>})
           \/ /\ \A h \in Holders(k) \ {<<c, o>>} : h[1] # c
              /\ Reaches(k, "LOADED", KeepersOf(k) \ {c}, Holders(k) \ {<<c, o>>})
    PROVE  KeyMoves(k)
<1>0. Holders(k) \subseteq Context \X Operator
    BY DEF Holders
<1>1. Lifecycle!Return(k)
    BY <1>0 DEF Reaches, StageOf, KeepersOf, Lifecycle!Return, Lifecycle!Becomes
<1> QED
    BY <1>1 DEF KeyMoves, Lifecycle!KeyNext

LEMMA ForgetMoves ==
    ASSUME NEW k \in Key, NEW c \in KeepersOf(k),
           StageOf(k) = "LOADED", \A h \in Holders(k) : h[1] # c,
           Reaches(k, "LOADED", KeepersOf(k) \ {c}, Holders(k))
    PROVE  KeyMoves(k)
<1>0. Holders(k) \subseteq Context \X Operator
    BY DEF Holders
<1>1. Lifecycle!Forget(k)
    BY <1>0 DEF Reaches, StageOf, KeepersOf, Lifecycle!Forget, Lifecycle!Becomes
<1> QED
    BY <1>1 DEF KeyMoves, Lifecycle!KeyNext

LEMMA TeardownMoves ==
    ASSUME NEW k \in Key, StageOf(k) = "LOADED", KeepersOf(k) = {},
           Reaches(k, "UNLOADING", {}, {})
    PROVE  KeyMoves(k)
<1>1. Lifecycle!Teardown(k)
    BY DEF Reaches, StageOf, KeepersOf, Lifecycle!Teardown, Lifecycle!Becomes
<1> QED
    BY <1>1 DEF KeyMoves, Lifecycle!KeyNext

LEMMA TeardownReturnsMoves ==
    ASSUME NEW k \in Key, StageOf(k) = "UNLOADING",
           Reaches(k, "ABSENT", {}, {}) \/ Reaches(k, "LOADED", {}, {})
    PROVE  KeyMoves(k)
<1>1. Lifecycle!TeardownEnds(k) \/ Lifecycle!TeardownFails(k)
    BY DEF Reaches, StageOf, KeepersOf, Lifecycle!TeardownEnds, Lifecycle!TeardownFails,
           Lifecycle!Becomes
<1> QED
    BY <1>1 DEF KeyMoves, Lifecycle!KeyNext
-----------------------------------------------------------------------------
\* A key that a step does not concern stays where it is.
LEMMA Untouched ==
    ASSUME NEW k \in Key, state'[k] = state[k], Holders(k)' = Holders(k),
           \A c \in Context : ownedPins'[c][k] = ownedPins[c][k]
    PROVE  KeyMoves(k)
BY DEF KeyMoves, Stays, Reaches, StageOf, KeepersOf

\* Nobody keeps or uses a key that is not loaded.
LEMMA NotLoaded ==
    ASSUME IInv, NEW k \in Key, state[k] \notin {"READY", "IN_USE"}
    PROVE  KeepersOf(k) = {} /\ Holders(k) = {}
<1>1. KeepersOf(k) = {}
    BY OwnedIsLoaded DEF KeepersOf, IInv, CacheInv
<1>2. Holders(k) = {}
    BY DEF IInv, CacheInv, UsersAccounted
<1> QED
    BY <1>1, <1>2

LEMMA PinMoves ==
    ASSUME IInv, NEW c \in Context, NEW j \in Key, Pin(c, j),
           state[j] \in {"READY", "IN_USE"}, UNCHANGED state, LiveSame
    PROVE  \A k \in Key : KeyMoves(k)
<1> TAKE k \in Key
<1>0. Holders(k)' = Holders(k) /\ state'[k] = state[k]
    BY SessionsSame
<1>1. CASE k # j
    <2>1. \A d \in Context : ownedPins'[d][k] = ownedPins[d][k]
        BY <1>1 DEF Pin, IInv, TypeOK
    <2> QED
        BY <1>0, <2>1, Untouched
<1>2. CASE k = j
    <2>1. \A d \in Context : /\ ownedPins[d][k] \in Nat
                             /\ ownedPins'[d][k] = IF d = c THEN ownedPins[d][k] + 1
                                                           ELSE ownedPins[d][k]
        BY <1>2 DEF Pin, IInv, TypeOK
    <2>2. Reaches(k, "LOADED", KeepersOf(k) \cup {c}, Holders(k))
        BY <1>0, <1>2, <2>1 DEF Reaches, StageOf, KeepersOf
    <2> QED
        BY <1>2, <2>2, KeepMoves DEF StageOf
<1> QED
    BY <1>1, <1>2

LEMMA LoadMoves ==
    ASSUME IInv, NEW c \in Context, NEW f \in Field, LoadResource(c, f), LiveGone(c, f)
    PROVE  \A k \in Key : KeyMoves(k)
<1> TAKE k \in Key
<1>0. /\ Holders(k)' = Holders(k) /\ KeyOf[f] \in Key
      /\ state[KeyOf[f]] = "LOADING"
      /\ \A d \in Context : ownedPins[d][KeyOf[f]] = 0
    BY SetupGone, LoaderFacts, ConstantsAssumption DEF LiveGone, IInv
<1>1. CASE k # KeyOf[f]
    <2>1. /\ state'[k] = state[k]
          /\ \A d \in Context : ownedPins'[d][k] = ownedPins[d][k]
        BY <1>1 DEF LoadResource, IInv, TypeOK
    <2> QED
        BY <1>0, <2>1, Untouched
<1>2. CASE k = KeyOf[f]
    <2>1. /\ state'[k] = "READY"
          /\ \A d \in Context : ownedPins'[d][k] = IF d = c THEN 1 ELSE 0
        BY <1>0, <1>2 DEF LoadResource, IInv, TypeOK
    <2>2. Holders(k) = {}
        BY <1>0, <1>2, NotLoaded
    <2>3. Reaches(k, "LOADED", {c}, {})
        BY <1>0, <2>1, <2>2 DEF Reaches, StageOf, KeepersOf
    <2> QED
        BY <1>0, <1>2, <2>3, SetupEndsMoves DEF StageOf
<1> QED
    BY <1>1, <1>2

LEMMA CancelMoves ==
    ASSUME IInv, NEW c \in Context, NEW f \in Field, CancelRegistration(f), LiveGone(c, f)
    PROVE  \A k \in Key : KeyMoves(k)
<1> TAKE k \in Key
<1>0. /\ Holders(k)' = Holders(k) /\ KeyOf[f] \in Key
      /\ state[KeyOf[f]] = "LOADING" /\ KeepersOf(k)' = KeepersOf(k)
    BY SetupGone, LoaderFacts, ConstantsAssumption
    DEF LiveGone, IInv, CancelRegistration, KeepersOf
<1>1. CASE k # KeyOf[f]
    <2>1. /\ state'[k] = state[k]
          /\ \A d \in Context : ownedPins'[d][k] = ownedPins[d][k]
        BY <1>1 DEF CancelRegistration, IInv, TypeOK
    <2> QED
        BY <1>0, <2>1, Untouched
<1>2. CASE k = KeyOf[f]
    <2>1. state'[k] = "ABSENT"
        BY <1>0, <1>2 DEF CancelRegistration, IInv, TypeOK
    <2>2. Holders(k) = {} /\ KeepersOf(k) = {}
        BY <1>0, <1>2, NotLoaded
    <2>3. Reaches(k, "ABSENT", {}, {})
        BY <1>0, <2>1, <2>2 DEF Reaches, StageOf
    <2> QED
        BY <1>0, <1>2, <2>3, SetupFailsMoves DEF StageOf
<1> QED
    BY <1>1, <1>2

LEMMA TwoElements ==
    ASSUME NEW S, IsFiniteSet(S), NEW x \in S, NEW y \in S, x # y
    PROVE  Cardinality(S) > 1
<1>1. IsFiniteSet(S \ {x}) /\ Cardinality(S \ {x}) = Cardinality(S) - 1
    BY OneLess, FS_RemoveElement
<1>2. Cardinality(S \ {x}) # 0
    BY <1>1, FS_EmptySet
<1>3. Cardinality(S \ {x}) \in Nat /\ Cardinality(S) \in Nat
    BY <1>1, FS_CardinalityType
<1> QED
    BY <1>1, <1>2, <1>3

\* The release of an operator takes its context's last pin on a key only if
\* the context has no other operator there.
LEMMA ReleaseMoves ==
    ASSUME IInv, NEW c \in Context, NEW o \in Operator,
           ReleaseResources(c, o), LiveGone(c, o)
    PROVE  \A k \in Key : KeyMoves(k)
<1> TAKE k \in Key
<1>0. /\ Holders(k)' = Holders(k) \ {<<c, o>>}
      /\ <<c, o>> \in Holders(k) <=> k \in KeysOf(o)
    BY OperatorGone
<1>1. CASE k \notin KeysOf(o)
    <2>1. /\ state'[k] = state[k] /\ Holders(k)' = Holders(k)
          /\ \A d \in Context : ownedPins'[d][k] = ownedPins[d][k]
        BY <1>0, <1>1 DEF ReleaseResources, IInv, TypeOK
    <2> QED
        BY <2>1, Untouched
<1>2. CASE k \in KeysOf(o)
    <2>1. state[k] = "IN_USE"
        BY <1>0, <1>2 DEF IInv, CacheInv, UsersAccounted
    <2>2. StageOf(k) = "LOADED" /\ StageOf(k)' = "LOADED"
        BY <1>2, <2>1 DEF StageOf, ReleaseResources
    <2>3. \A d \in Context : /\ ownedPins[d][k] \in Nat
                             /\ ownedPins'[d][k] = IF d = c THEN ownedPins[d][k] - 1
                                                           ELSE ownedPins[d][k]
        BY <1>2 DEF ReleaseResources, IInv, TypeOK
    <2>4. CASE ownedPins[c][k] # 1
        <3>1. KeepersOf(k)' = KeepersOf(k)
            BY <2>3, <2>4 DEF KeepersOf
        <3> QED
            BY <1>0, <1>2, <2>2, <3>1, ReturnMoves DEF Reaches
    <2>5. CASE ownedPins[c][k] = 1
        <3>1. KeepersOf(k)' = KeepersOf(k) \ {c}
            BY <2>3, <2>5 DEF KeepersOf
        <3>2. ASSUME NEW h \in Holders(k) \ {<<c, o>>}, h[1] = c
              PROVE  FALSE
            <4>1. /\ h[2] \in Operator /\ Live(c, h[2]) /\ k \in KeysOf(h[2])
                  /\ h = <<c, h[2]>>
                BY <3>2 DEF Holders
            <4>2. h[2] \in Claims(c, k) /\ o \in Claims(c, k) /\ h[2] # o
                BY <1>2, <3>2, <4>1 DEF Claims, LiveGone
            <4>3. Cardinality(Claims(c, k)) > 1 /\ IsFiniteSet(Claims(c, k))
                BY <4>2, TwoElements, ClaimsFinite
            <4>4. Cardinality(Claims(c, k)) <= ownedPins[c][k]
                BY <4>1 DEF IInv, ContextOK, Step
            <4>5. Cardinality(Claims(c, k)) \in Nat
                BY <4>3, FS_CardinalityType
            <4> QED
                BY <2>5, <4>3, <4>4, <4>5
        <3> QED
            BY <1>0, <1>2, <2>2, <3>1, <3>2, ReturnMoves DEF Reaches
    <2> QED
        BY <2>4, <2>5
<1> QED
    BY <1>1, <1>2

LEMMA EndsMoves ==
    ASSUME IInv, NEW c \in Context, NEW s \in Step, NEW p, Live(c, s), Ends(c, s, p)
    PROVE  \A k \in Key : KeyMoves(k)
<1>1. /\ p \in {"DONE", "DROPPED"}
      /\ \A d \in Context, t \in Step :
             phase'[d][t] = IF d = c /\ t = s THEN p ELSE phase[d][t]
    BY DEF IInv, TypeOK, Ends, Step
<1>2. LiveGone(c, s)
    BY <1>1 DEF LiveGone, Live, LivePhase
<1> QED
    BY <1>2, ReleaseMoves, CancelMoves, LoadMoves DEF Ends

LEMMA DispatchSetupMoves ==
    ASSUME IInv, NEW c \in Context, NEW f \in Field, DispatchSetup(c, f)
    PROVE  \A k \in Key : KeyMoves(k)
<1> TAKE k \in Key
<1>1. \A d \in Context, t \in Step :
          phase'[d][t] = IF d = c /\ t = f THEN "DISPATCHED" ELSE phase[d][t]
    BY ConstantsAssumption DEF IInv, TypeOK, DispatchSetup, Step
<1>2. LiveNew(c, f)
    BY <1>1, ConstantsAssumption DEF LiveNew, Live, LivePhase, DispatchSetup, Step
<1>3. Holders(k)' = Holders(k) /\ \A d \in Context : ownedPins'[d][k] = ownedPins[d][k]
    BY <1>2, SetupNew DEF DispatchSetup
<1>4. CASE k # KeyOf[f]
    BY <1>3, <1>4, Untouched DEF DispatchSetup, IInv, TypeOK
<1>5. CASE k = KeyOf[f]
    <2>1. state[k] = "ABSENT" /\ state'[k] = "LOADING"
        BY <1>5 DEF DispatchSetup, IInv, TypeOK
    <2>2. KeepersOf(k) = {} /\ Holders(k) = {}
        BY <2>1, NotLoaded
    <2>3. Reaches(k, "LOADING", {}, {})
        BY <1>3, <2>1, <2>2 DEF Reaches, StageOf, KeepersOf
    <2> QED
        BY <2>1, <2>3, SetupMoves DEF StageOf
<1> QED
    BY <1>4, <1>5

LEMMA DispatchOperatorMoves ==
    ASSUME IInv, NEW c \in Context, NEW o \in Operator, DispatchOperator(c, o)
    PROVE  \A k \in Key : KeyMoves(k)
<1> TAKE k \in Key
<1>0. o \in Step /\ o \notin Field
    BY ConstantsAssumption DEF Step
<1>1. \A d \in Context, t \in Step :
          phase'[d][t] = IF d = c /\ t = o THEN "DISPATCHED" ELSE phase[d][t]
    BY <1>0 DEF IInv, TypeOK, DispatchOperator
<1>2. LiveNew(c, o)
    BY <1>0, <1>1 DEF LiveNew, Live, LivePhase, DispatchOperator
<1>3. /\ Holders(k)' = IF k \in KeysOf(o) THEN Holders(k) \cup {<<c, o>>} ELSE Holders(k)
      /\ <<c, o>> \notin Holders(k)
      /\ \A d \in Context : ownedPins'[d][k] = ownedPins[d][k]
    BY <1>2, OperatorNew DEF DispatchOperator
<1>4. CASE k \notin KeysOf(o)
    BY <1>3, <1>4, Untouched DEF DispatchOperator
<1>5. CASE k \in KeysOf(o)
    <2>1. Acquirable(k) /\ state'[k] = "IN_USE"
        BY <1>5 DEF DispatchOperator
    <2>2. StageOf(k) = "LOADED" /\ (k \in ParallelSafe \/ Holders(k) = {})
        BY <2>1 DEF StageOf, Acquirable, IInv, CacheInv, UsersAccounted
    <2>3. c \in KeepersOf(k)
        <3>1. ContextOK(c) /\ phase[c][o] = "READY" /\ run[c] = "RUNNING"
              /\ ~InLoop("UNPIN", c)
            BY DEF IInv, DispatchOperator, Coordinated, Idle, InLoop
        <3>2. PICK f \in FieldsOf(o) : KeyOf[f] = k
            BY <1>5 DEF KeysOf
        <3>3. phase[c][f] = "DONE"
            BY <3>1, <3>2 DEF ContextOK, FieldsOf
        <3>4. o \in Claims(c, k)
            BY <3>1, <3>2, <3>3 DEF Claims
        <3> QED
            BY <3>1, <3>4, ClaimIsPinned DEF IInv, KeepersOf
    <2>4. Reaches(k, "LOADED", KeepersOf(k), Holders(k) \cup {<<c, o>>})
        BY <1>3, <1>5, <2>1 DEF Reaches, StageOf, KeepersOf
    <2> QED
        BY <1>3, <2>2, <2>3, <2>4, UseMoves
<1> QED
    BY <1>4, <1>5

LEMMA UnpinMoves ==
    ASSUME IInv, NEW c \in Context, NEW j \in Key, Unpin(c, j)
    PROVE  \A k \in Key : KeyMoves(k)
<1> TAKE k \in Key
<1>0. Holders(k)' = Holders(k) /\ state'[k] = state[k]
    BY SessionsSame, PhasesUntouched DEF Unpin
<1>1. \A d \in Context : /\ ownedPins[d][k] \in Nat
                         /\ ownedPins'[d][k] = IF d = c /\ k = j THEN ownedPins[d][k] - 1
                                               ELSE ownedPins[d][k]
    BY DEF Unpin, IInv, TypeOK
<1>2. CASE k # j
    BY <1>0, <1>1, <1>2, Untouched
<1>3. CASE k = j /\ ownedPins[c][k] > 1
    <2>1. Stays(k)
        BY <1>0, <1>1, <1>3 DEF Stays, Reaches, StageOf, KeepersOf
    <2> QED
        BY <2>1 DEF KeyMoves
<1>4. CASE k = j /\ ~(ownedPins[c][k] > 1)
    <2>1. ownedPins[c][k] > 0
        BY <1>4 DEF Unpin
    <2>2. KeepersOf(k)' = KeepersOf(k) \ {c} /\ c \in KeepersOf(k)
        BY <1>1, <1>4, <2>1 DEF KeepersOf
    <2>3. StageOf(k) = "LOADED" /\ StageOf(k)' = "LOADED"
        BY <1>0, <2>1, OwnedIsLoaded DEF IInv, CacheInv, StageOf
    <2>4. \A h \in Holders(k) : h[1] # c
        BY DEF Holders, IInv, ContextOK, Unpin, Step
    <2> QED
        BY <1>0, <2>2, <2>3, <2>4, ForgetMoves DEF Reaches
<1> QED
    BY <1>2, <1>3, <1>4

LEMMA BeginUnloadMoves ==
    ASSUME IInv, NEW j \in Key, BeginUnload(j)
    PROVE  \A k \in Key : KeyMoves(k)
<1> TAKE k \in Key
<1>0. Holders(k)' = Holders(k) /\ ownedPins' = ownedPins
    BY SessionsSame, PhasesUntouched DEF BeginUnload
<1>1. CASE k # j
    BY <1>0, <1>1, Untouched DEF BeginUnload, IInv, TypeOK
<1>2. CASE k = j
    <2>1. state[k] = "READY" /\ state'[k] = "UNLOADING" /\ pinCount[k] = 0
        BY <1>2 DEF BeginUnload, Unloadable, IInv, TypeOK
    <2>2. Cardinality(PinTokens(k)) = 0 /\ IsFiniteSet(PinTokens(k))
        BY <2>1, TokensFinite DEF IInv, CacheInv, PinsAccounted, TypeOK
    <2>3. PinTokens(k) = {}
        BY <2>2, FS_EmptySet
    <2>4. KeepersOf(k) = {}
        BY <2>3, Pinned DEF KeepersOf, IInv
    <2>5. Holders(k) = {}
        BY <2>1 DEF IInv, CacheInv, UsersAccounted
    <2>6. Reaches(k, "UNLOADING", {}, {})
        BY <1>0, <2>1, <2>4, <2>5 DEF Reaches, StageOf, KeepersOf
    <2> QED
        BY <2>1, <2>4, <2>6, TeardownMoves DEF StageOf
<1> QED
    BY <1>1, <1>2

LEMMA TeardownEndMoves ==
    ASSUME IInv, NEW j \in Key, TeardownDone(j) \/ TeardownFailed(j)
    PROVE  \A k \in Key : KeyMoves(k)
<1> TAKE k \in Key
<1>0. Holders(k)' = Holders(k) /\ ownedPins' = ownedPins
    BY SessionsSame, PhasesUntouched DEF TeardownDone, TeardownFailed
<1>1. CASE k # j
    BY <1>0, <1>1, Untouched DEF TeardownDone, TeardownFailed, IInv, TypeOK
<1>2. CASE k = j
    <2>1. state[k] = "UNLOADING" /\ state'[k] \in {"ABSENT", "READY"}
        BY <1>2 DEF TeardownDone, TeardownFailed, IInv, TypeOK, CoordinatorOK
    <2>2. KeepersOf(k) = {} /\ Holders(k) = {}
        BY <2>1, NotLoaded
    <2>3. Reaches(k, "ABSENT", {}, {}) \/ Reaches(k, "LOADED", {}, {})
        BY <1>0, <2>1, <2>2 DEF Reaches, StageOf, KeepersOf
    <2> QED
        BY <2>1, <2>3, TeardownReturnsMoves DEF StageOf
<1> QED
    BY <1>1, <1>2

\* The steps that leave the cache and the set of live sessions alone.
LEMMA QuietMoves ==
    ASSUME UNCHANGED <<state, ownedPins>>, LiveSame
    PROVE  \A k \in Key : KeyMoves(k)
BY SessionsSame, Untouched

LEMMA SetupStepMoves ==
    ASSUME IInv, NEW c \in Context, NEW f \in Field, SetupStep(c, f)
    PROVE  \A k \in Key : KeyMoves(k)
<1>0. f \in Step /\ KeyOf[f] \in Key
    BY ConstantsAssumption DEF Step
<1>1. ASSUME phase[c][f] # "DONE", ~Live(c, f), Acquirable(KeyOf[f]), Pin(c, KeyOf[f]),
             Completes(c, f), UNCHANGED state
      PROVE  \A k \in Key : KeyMoves(k)
    <2>1. LiveSame
        BY <1>1, CompleteStepFacts DEF LiveSame
    <2> QED
        BY <1>0, <1>1, <2>1, PinMoves DEF Acquirable
<1>2. CASE PrepareResource(c, f)
    <2>1. phase[c][f] = "BLOCKED" /\ ~Live(c, f)
        BY <1>0, <1>2 DEF PrepareResource, Live, LivePhase
    <2>2. CASE Acquirable(KeyOf[f])
        BY <1>1, <1>2, <2>1, <2>2 DEF PrepareResource, Completes
    <2>3. CASE ~Acquirable(KeyOf[f])
        <3>1. \A d \in Context, t \in Step :
                  phase'[d][t] = IF d = c /\ t = f THEN "READY" ELSE phase[d][t]
            BY <1>0, <1>2, <2>3 DEF PrepareResource, IInv, TypeOK
        <3>2. LiveSame
            BY <2>1, <3>1 DEF LiveSame, Live, LivePhase
        <3> QED
            BY <1>2, <2>3, <3>2, QuietMoves DEF PrepareResource
    <2> QED
        BY <2>2, <2>3
<1>3. CASE SkipAvailable(c, f)
    BY <1>1, <1>3 DEF SkipAvailable, Completes, Live, LivePhase
<1>4. CASE CollectSetup(c, f)
    <2>1. phase[c][f] # "DONE" /\ Live(c, f) /\ Completes(c, f) /\ LoadResource(c, f)
        BY <1>4 DEF CollectSetup, Completes, Live, LivePhase
    <2>2. LiveGone(c, f)
        BY <2>1, CompleteStepFacts DEF LiveGone
    <2> QED
        BY <2>1, <2>2, LoadMoves
<1> QED
    BY <1>2, <1>3, <1>4, DispatchSetupMoves DEF SetupStep

LEMMA OperatorStepMoves ==
    ASSUME IInv, NEW c \in Context, NEW o \in Operator, OperatorStep(c, o)
    PROVE  \A k \in Key : KeyMoves(k)
<1>1. CASE CollectOperator(c, o)
    <2>1. o \in Step /\ Live(c, o) /\ Ends(c, o, "DONE")
        BY <1>1, ReportedIsLive DEF CollectOperator, Ends, Step
    <2> QED
        BY <2>1, EndsMoves
<1>2. CASE CollectBroken(c, o)
    <2>1. o \in Step /\ Live(c, o) /\ Ends(c, o, "DROPPED")
        BY <1>2, ReportedIsLive DEF CollectBroken, Ends, Step
    <2> QED
        BY <2>1, EndsMoves
<1> QED
    BY <1>1, <1>2, DispatchOperatorMoves DEF OperatorStep

LEMMA SessionStepMoves ==
    ASSUME IInv, NEW c \in Context, NEW s \in Step, SessionStep(c, s)
    PROVE  \A k \in Key : KeyMoves(k)
<1>1. CASE Redispatch(c, s) \/ Report(c, s) \/ ResolvePlacement(c, s)
           \/ CollectWaiting(c, s) \/ CollectRepeat(c, s)
    <2>1. /\ Live(c, s) /\ UNCHANGED <<state, ownedPins>>
          /\ \E p \in LivePhase : phase' = [phase EXCEPT ![c][s] = p]
        BY <1>1 DEF Redispatch, Report, ResolvePlacement, CollectWaiting, CollectRepeat,
                    Live, LivePhase, cacheVars
    <2>2. PICK p \in LivePhase : phase' = [phase EXCEPT ![c][s] = p]
        BY <2>1
    <2>3. \A d \in Context, t \in Step :
              phase'[d][t] = IF d = c /\ t = s THEN p ELSE phase[d][t]
        BY <2>2 DEF IInv, TypeOK
    <2>4. LiveSame
        BY <2>1, <2>3 DEF LiveSame, Live
    <2> QED
        BY <2>1, <2>4, QuietMoves
<1>2. CASE CollectDraining(c, s)
    <2>1. Live(c, s) /\ Ends(c, s, "DROPPED")
        BY <1>2, DrainEnded, ReportedIsLive DEF CollectDraining, Reported
    <2> QED
        BY <2>1, EndsMoves
<1>3. CASE CollectFailed(c, s)
    <2>1. Live(c, s) /\ Ends(c, s, "DROPPED")
        BY <1>3, ReportedIsLive DEF CollectFailed, GiveBack, Ends
    <2> QED
        BY <2>1, EndsMoves
<1>4. CASE DrainUndispatched(c, s)
    <2>1. Live(c, s) /\ Ends(c, s, "DROPPED")
        BY <1>4, DrainEnded DEF DrainUndispatched, Undispatched, LiveSessions
    <2> QED
        BY <2>1, EndsMoves
<1> QED
    BY <1>1, <1>2, <1>3, <1>4 DEF SessionStep

LEMMA FreshPhasesMove ==
    ASSUME IInv, NEW c \in Context, NEW missing,
           phase' = [phase EXCEPT ![c] = FreshPhases(c, missing)],
           \A s \in Step : ~Live(c, s), UNCHANGED <<state, ownedPins>>
    PROVE  \A k \in Key : KeyMoves(k)
<1>1. /\ \A d \in Context \ {c} : phase'[d] = phase[d]
      /\ phase'[c] = FreshPhases(c, missing)
    BY DEF IInv, TypeOK
<1>2. LiveSame
    BY <1>1 DEF LiveSame, Live, LivePhase, FreshPhases
<1> QED
    BY <1>2, QuietMoves

LEMMA ContextStepMoves ==
    ASSUME IInv, NEW c \in Context, ContextStep(c)
    PROVE  \A k \in Key : KeyMoves(k)
<1>1. CASE Register(c)
    <2>1. \A s \in Step : ~Live(c, s)
        BY <1>1 DEF Register, IInv, ContextOK
    <2> QED
        BY <1>1, <2>1, FreshPhasesMove DEF Register, cacheVars
<1>2. CASE FinishIteration(c)
    <2>1. \A s \in Step : ~Live(c, s)
        BY <1>2 DEF FinishIteration, AllDone, Live, LivePhase
    <2>2. CASE UNCHANGED phase
        BY <1>2, <2>2, PhasesUntouched, QuietMoves DEF FinishIteration, cacheVars
    <2>3. CASE \E missing \in SUBSET Graph[c] :
                   phase' = [phase EXCEPT ![c] = FreshPhases(c, missing)]
        BY <1>2, <2>1, <2>3, FreshPhasesMove DEF FinishIteration, cacheVars
    <2> QED
        BY <1>2, <2>2, <2>3 DEF FinishIteration
<1>3. CASE ~Register(c) /\ ~FinishIteration(c)
    <2>1. UNCHANGED <<state, ownedPins>> /\ UNCHANGED phase
        BY <1>3 DEF ContextStep, Prepared, Start, Pause, Resume, Abort, SetRun, Visit,
                    FinishDrain, NothingToSettle, Finalize, cacheVars
    <2> QED
        BY <2>1, PhasesUntouched, QuietMoves
<1> QED
    BY <1>1, <1>2, <1>3

LEMMA KeyStepMoves ==
    ASSUME IInv, NEW j \in Key, KeyStep(j)
    PROVE  \A k \in Key : KeyMoves(k)
<1>1. CASE Evict(j)
    BY <1>1, BeginUnloadMoves DEF Evict
<1>2. CASE TeardownDone(j) \/ TeardownFailed(j)
    BY <1>2, TeardownEndMoves
<1>3. CASE Close(j)
    <2>1. CASE BeginUnload(j)
        BY <2>1, BeginUnloadMoves
    <2>2. CASE ~BeginUnload(j)
        <3>1. \A c \in Context : ContextOK(c) /\ run[c] \in {"NEW", "DONE"}
            BY <1>3 DEF Close, IInv, CoordinatorOK
        <3>2. Loaders(j) = {}
            BY <3>1, ConstantsAssumption DEF Loaders, ContextOK, Step
        <3>3. state[j] # "LOADING"
            BY <3>2 DEF IInv, CacheInv, SingleLoader
        <3>4. UNCHANGED <<state, ownedPins>> /\ UNCHANGED phase
            BY <1>3, <2>2, <3>3 DEF Close
        <3> QED
            BY <3>4, PhasesUntouched, QuietMoves
    <2> QED
        BY <2>1, <2>2
<1> QED
    BY <1>1, <1>2, <1>3 DEF KeyStep

\* Every step of the cache is a step of its abstraction, key by key.
LEMMA StepsMove ==
    ASSUME IInv, [Next]_vars
    PROVE  \A k \in Key : KeyMoves(k)
<1>1. CASE PrepareEmergency \/ BeginClose \/ EndClose \/ Closed \/ UNCHANGED vars
    <2>1. UNCHANGED <<state, ownedPins>> /\ UNCHANGED phase
        BY <1>1 DEF PrepareEmergency, BeginClose, EndClose, Closed, vars, cacheVars
    <2> QED
        BY <2>1, PhasesUntouched, QuietMoves
<1>2. CASE \E c \in Context :
              \/ ContextStep(c)
              \/ \E f \in Field : SetupStep(c, f)
              \/ \E o \in Operator : OperatorStep(c, o)
              \/ \E s \in Step : SessionStep(c, s)
              \/ \E k \in Key : Unpin(c, k)
    BY <1>2, ContextStepMoves, SetupStepMoves, OperatorStepMoves, SessionStepMoves,
       UnpinMoves
<1>3. CASE \E k \in Key : KeyStep(k)
    BY <1>3, KeyStepMoves
<1> QED
    BY <1>1, <1>2, <1>3 DEF Next

LEMMA InitMaps == Init => Lifecycle!Init
<1> SUFFICES ASSUME Init PROVE Lifecycle!Init
    OBVIOUS
<1>1. \A k \in Key : Holders(k) = {}
    BY ConstantsAssumption DEF Init, Holders, Live, LivePhase, Step
<1> QED
    BY <1>1 DEF Init, Lifecycle!Init

\* The cache keeps the promises of ResourceLifecycle for every set of contexts,
\* keys and operators.
THEOREM Refinement == Spec => ImplementsLifecycle
<1>1. IInv /\ [Next]_vars => [Lifecycle!Next]_(Lifecycle!vars)
    BY StepsMove, MovesImplyNext
<1> QED
    BY <1>1, InitMaps, Invariance, PTL
    DEF Spec, ImplementsLifecycle, Lifecycle!Spec
=============================================================================
