------------------------------- MODULE Store -------------------------------
(***************************************************************************)
(* What a SQLite store holds and what one transaction does to it           *)
(* (persistence/_sqlite.py): opening, a batch with its watermark, the      *)
(* bounded maintenance, and pages of committed rows.  A store is a record; *)
(* an operation is an operator from a store to a store.  A row's body is   *)
(* left out and every context, layout, session and profile has size one.   *)
(* What is done again and again in one transaction is a recursive function *)
(* of how often.                                                           *)
(***************************************************************************)
EXTENDS Integers, SequencesExt

CONSTANTS
    MaintenanceItems,   \* _MAINTENANCE_ITEMS: what one retention pass may delete
    Never               \* a timestamp that is NULL

ASSUME StoreAssumption == MaintenanceItems \in Nat \ {0}

Later(s, t) == IF s >= t THEN s ELSE t

-----------------------------------------------------------------------------
(* Schema and policy                                                       *)

Counters == {"contexts", "layouts", "sessions", "profiles", "producers"}

Uninitialized ==
    [schema |-> "NONE", policy |-> Never, publication |-> 0, clock |-> 0, producers |-> <<>>,
     contexts |-> <<>>, sessions |-> <<>>, layouts |-> <<>>, profiles |-> <<>>, ledger |-> Never,
     counts |-> [k \in Counters |-> 0], applied |-> <<>>, error |-> "NONE"]

\* A store that version 1 of the schema left: its policy has no imports.
Version1(policy) == [Uninitialized EXCEPT !.schema = "V1", !.policy = [policy EXCEPT !.imports = 0]]

Initialized(policy) == [Uninitialized EXCEPT !.schema = "V2", !.policy = policy]

Upgraded(d, policy) == [d EXCEPT !.schema = "V2", !.policy = policy]

-----------------------------------------------------------------------------
(* Retention                                                               *)

Less(f, k) == Restrict(f, DOMAIN f \ {k})
With(f, k, row) == [x \in DOMAIN f \cup {k} |-> IF x = k THEN row ELSE f[x]]
Refused(d, why) == [d EXCEPT !.error = why]

Clocked(d, wall) == [d EXCEPT !.clock = Later(@, wall)]

WithinBounds(d) ==
    /\ d.counts.contexts <= d.policy.contexts
    /\ d.counts.contexts + d.counts.layouts <= d.policy.bytes
    /\ \A k \in {"sessions", "profiles", "producers"} : d.counts[k] <= d.policy[k]

\* What a store is checked for when it is opened.
Qualified(d) == d.schema # "NONE" /\ WithinBounds(d)

\* A writer initializes an empty store, upgrades an old one only when asked to,
\* and shares a store only under its policy.
Opened(d, policy, upgrade) ==
    CASE d.schema = "NONE" -> [store |-> Initialized(policy), ok |-> TRUE]
      [] d.schema = "V1" ->
            LET ok == Qualified(d) /\ upgrade /\ d.policy = [policy EXCEPT !.imports = 0]
            IN [store |-> IF ok THEN Upgraded(d, policy) ELSE d, ok |-> ok]
      [] OTHER -> [store |-> d, ok |-> Qualified(d) /\ d.policy = policy]

\* Variant: a layout goes with the first context that refers to it.
RemoveContext_Layout(d, k) ==
    LET row == d.contexts[k]
        gone == row.layout \in DOMAIN d.layouts
    IN [d EXCEPT !.contexts = Less(@, k),
                 !.sessions[row.session].refs = @ - 1,
                 !.layouts = IF gone THEN Less(@, row.layout) ELSE @,
                 !.counts.contexts = @ - 1,
                 !.counts.layouts = IF gone THEN @ - 1 ELSE @]

\* A layout goes with the last context that refers to it.
LayoutsWithout(layouts, l) ==
    IF l = Never THEN layouts
    ELSE IF layouts[l].refs = 1 THEN Less(layouts, l)
    ELSE [layouts EXCEPT ![l].refs = @ - 1]

RemoveContext(d, k) ==
    LET row == d.contexts[k]
        last == row.layout # Never /\ d.layouts[row.layout].refs = 1
        counts == [d.counts EXCEPT !.contexts = @ - 1, !.layouts = IF last THEN @ - 1 ELSE @]
    IN [d EXCEPT !.contexts = Less(@, k), !.counts = counts,
                 !.sessions[row.session].refs = @ - 1,
                 !.layouts = LayoutsWithout(@, row.layout)]

\* The first by the given ages; rows of one age go in the order of publication.
Oldest(rows, keys, age) ==
    CHOOSE k \in keys : \A l \in keys :
        \/ age[k] < age[l]
        \/ age[k] = age[l] /\ rows[k].publication <= rows[l].publication

Expired(d) == {p \in DOMAIN d.producers : d.producers[p].expires <= d.clock}

DueContexts(d) ==
    IF d.counts.contexts > d.policy.contexts \/ d.counts.contexts + d.counts.layouts > d.policy.bytes
    THEN DOMAIN d.contexts
    ELSE {k \in DOMAIN d.contexts : d.policy.age # Never /\ d.contexts[k].at < d.clock - d.policy.age}

DueProfiles(d) ==
    IF d.counts.profiles > d.policy.profiles THEN DOMAIN d.profiles
    ELSE {k \in DOMAIN d.profiles : d.policy.age # Never /\ d.profiles[k].updated < d.clock - d.policy.age}

\* Sessions nobody refers to that have ended; of an import, at once.
DueSessions(d) ==
    {s \in DOMAIN d.sessions :
        LET row == d.sessions[s]
        IN /\ row.refs = 0
           /\ row.shutdown # Never \/ ~row.started
           /\ \/ d.counts.sessions > d.policy.sessions
              \/ ~row.started
              \/ d.policy.age # Never /\ row.shutdown < d.clock - d.policy.age}

EndOf(row) == IF row.shutdown = Never THEN 0 ELSE row.shutdown

\* One deletion: expired watermarks first, then contexts, profiles, sessions.
PruneOne(d) ==
    IF Expired(d) # {} THEN
        LET p == CHOOSE p \in Expired(d) : \A q \in Expired(d) : d.producers[p].expires <= d.producers[q].expires
        IN [d EXCEPT !.producers = Less(@, p), !.counts.producers = @ - 1]
    ELSE IF DueContexts(d) # {} THEN
        RemoveContext(d, Oldest(d.contexts, DueContexts(d), [k \in DOMAIN d.contexts |-> d.contexts[k].at]))
    ELSE IF DueProfiles(d) # {} THEN
        LET k == Oldest(d.profiles, DueProfiles(d), [k \in DOMAIN d.profiles |-> d.profiles[k].updated])
        IN [d EXCEPT !.profiles = Less(@, k), !.counts.profiles = @ - 1]
    ELSE IF DueSessions(d) # {} THEN
        LET key == Oldest(d.sessions, DueSessions(d), [s \in DOMAIN d.sessions |-> EndOf(d.sessions[s])])
        IN [d EXCEPT !.sessions = Less(@, key), !.counts.sessions = @ - 1]
    ELSE d

Prune(d) ==
    LET pruned[n \in 0..MaintenanceItems] == IF n = 0 THEN d ELSE PruneOne(pruned[n - 1])
    IN pruned[MaintenanceItems]

\* Owned by no batch: the lane calls it now and then and between two attempts.
Maintained(d, wall) ==
    LET e == Prune(Clocked(d, wall)) IN IF WithinBounds(e) THEN e ELSE d

-----------------------------------------------------------------------------
(* A batch                                                                 *)

NextPublication(d) == d.publication + 1

\* The record of a session is written when it starts and once more when it ends.
PutSession(d, i) ==
    IF i.session \notin DOMAIN d.sessions THEN
        [d EXCEPT !.sessions = With(@, i.session, [started |-> i.started, shutdown |-> i.at, refs |-> 0,
                                                   publication |-> NextPublication(d)]),
                  !.publication = NextPublication(d), !.counts.sessions = @ + 1, !.applied = Append(@, i.id)]
    ELSE IF d.sessions[i.session].shutdown = i.at THEN d
    ELSE IF d.sessions[i.session].shutdown # Never \/ i.at = Never THEN Refused(d, "CONTRACT")
    ELSE [d EXCEPT !.sessions[i.session].shutdown = i.at,
                   !.sessions[i.session].publication = NextPublication(d),
                   !.publication = NextPublication(d), !.applied = Append(@, i.id)]

PutLayout(d, l) ==
    IF l = Never THEN d
    ELSE IF l \in DOMAIN d.layouts THEN [d EXCEPT !.layouts[l].refs = @ + 1]
    ELSE [d EXCEPT !.layouts = With(@, l, [refs |-> 1]), !.counts.layouts = @ + 1]

\* The same evidence a second time is ignored; a context needs its session.
PutContext(d, i) ==
    IF i.name \in DOMAIN d.contexts THEN d
    ELSE IF i.session \notin DOMAIN d.sessions THEN Refused(d, "CONTRACT")
    ELSE LET e == PutLayout(d, i.layout)
         IN [e EXCEPT !.contexts = With(@, i.name, [session |-> i.session, layout |-> i.layout, at |-> i.at,
                                                    publication |-> NextPublication(d)]),
                      !.publication = NextPublication(d), !.sessions[i.session].refs = @ + 1,
                      !.counts.contexts = @ + 1, !.applied = Append(@, i.id)]

\* A contribution is added to what the profile has learned.
PutProfile(d, i) ==
    LET row == [updated |-> d.clock, publication |-> NextPublication(d)]
    IN [d EXCEPT !.profiles = With(@, i.name, row), !.publication = NextPublication(d),
                 !.counts.profiles = IF i.name \in DOMAIN d.profiles THEN @ ELSE @ + 1,
                 !.applied = Append(@, i.id)]

\* The ledger of an import never expires, so that pruning permits no replay.
PutImport(d, i) ==
    IF d.policy.imports = 0 THEN Refused(d, "PRESSURE") ELSE [d EXCEPT !.ledger = i.ledger]

Put(d, i) ==
    IF d.error # "NONE" THEN d
    ELSE CASE i.kind = "SESSION" -> PutSession(d, i)
           [] i.kind = "CONTEXT" -> PutContext(d, i)
           [] i.kind = "PROFILE" -> PutProfile(d, i)
           [] OTHER -> PutImport(d, i)

\* Those of the items that are of one kind, in their order.
PutKind(d, items, kind) ==
    LET after[n \in 0..Len(items)] ==
            IF n = 0 THEN d
            ELSE IF items[n].kind = kind THEN Put(after[n - 1], items[n]) ELSE after[n - 1]
    IN after[Len(items)]

PutAll(d, items) ==
    PutKind(PutKind(PutKind(PutKind(d, items, "SESSION"), items, "CONTEXT"), items, "PROFILE"), items, "IMPORT")

\* A checkpoint continues the one its importer has read, and no finished one.
ImportAdvances(d, items) ==
    \A n \in DOMAIN items : items[n].kind = "IMPORT" =>
        /\ items[n].expected = (IF d.ledger = Never THEN Never ELSE d.ledger.processed)
        /\ d.ledger # Never => ~d.ledger.complete /\ d.ledger.imported <= items[n].ledger.imported

Watermark(d, b) == IF b.producer \in DOMAIN d.producers THEN d.producers[b.producer].sequence ELSE 0

\* Variant: a token is judged by the ledger alone.
Judged_Ledger(d, b) ==
    IF b.sequence <= Watermark(d, b) THEN "DUPLICATE"
    ELSE IF b.sequence # Watermark(d, b) + 1 \/ ~ImportAdvances(d, b.items) THEN "CONTRACT"
    ELSE "NEW"

\* Whether a batch is new, was stored before, or must not be stored any more.
Judged(d, b) ==
    IF b.issued > d.clock \/ b.issued + d.policy.horizon <= d.clock THEN "CONTRACT"
    ELSE IF b.sequence <= Watermark(d, b)
         THEN IF b.sequence = Watermark(d, b) /\ b.items # d.producers[b.producer].digest
              THEN "CONTRACT" ELSE "DUPLICATE"
    ELSE IF b.sequence # Watermark(d, b) + 1 \/ ~ImportAdvances(d, b.items) THEN "CONTRACT"
    ELSE "NEW"

Registered(d, b) ==
    IF b.producer \in DOMAIN d.producers THEN d
    ELSE IF d.counts.producers >= d.policy.producers THEN Refused(d, "PRESSURE")
    ELSE [d EXCEPT !.producers = With(@, b.producer, [sequence |-> 0, digest |-> <<>>,
                                                      expires |-> b.issued + d.policy.horizon]),
                   !.counts.producers = @ + 1]

\* The transaction: prune, put everything, prune again, and all of it or nothing.
Stored(d, b) ==
    LET put == PutAll(Registered(Prune(d), b), b.items)
        e == Prune(put)
    IN IF put.error # "NONE" THEN put
       ELSE IF ~WithinBounds(e) THEN Refused(e, "PRESSURE")
       ELSE [e EXCEPT !.producers[b.producer] =
                 [sequence |-> b.sequence, digest |-> b.items, expires |-> @.expires]]

Write(d, b, wall) ==
    LET c == Clocked(d, wall)
        judged == Judged(c, b)
        e == Stored(c, b)
    IN CASE judged = "CONTRACT" -> [store |-> d, answer |-> judged]
         [] judged = "DUPLICATE" -> [store |-> c, answer |-> judged]
         [] judged = "NEW" -> IF e.error # "NONE" THEN [store |-> d, answer |-> e.error]
                              ELSE [store |-> e, answer |-> "STORED"]

-----------------------------------------------------------------------------
(* Pages of committed rows                                                 *)

NoCursor == [boundary |-> Never, last |-> 0]

Listed(rows, boundary, cursor, descending) ==
    SetToSortSeq({r \in rows : /\ r.publication <= boundary
                               /\ \/ cursor = NoCursor
                                  \/ IF descending THEN r.publication < cursor.last
                                     ELSE r.publication > cursor.last},
                 LAMBDA r, s : IF descending THEN r.publication > s.publication
                               ELSE r.publication < s.publication)

\* At most n rows in the order of their publication, up to the publication
\* that was the last when the first page was read.
Page(d, rows, cursor, descending, n) ==
    LET boundary == IF cursor = NoCursor THEN d.publication ELSE cursor.boundary
        listed == Listed(rows, boundary, cursor, descending)
    IN [items |-> IF Len(listed) > n THEN SubSeq(listed, 1, n) ELSE listed, boundary |-> boundary,
        next |-> IF Len(listed) > n THEN [boundary |-> boundary, last |-> listed[n].publication] ELSE NoCursor]

ContextRows(d, scope) ==
    {[key |-> k, session |-> d.contexts[k].session, publication |-> d.contexts[k].publication] :
        k \in {c \in DOMAIN d.contexts : d.contexts[c].session \in scope}}
SessionRows(d, scope) ==
    {[key |-> s, session |-> s, publication |-> d.sessions[s].publication] : s \in DOMAIN d.sessions \cap scope}

\* The lane looks at every page itself, for a store may be of another make.
ValidPage(page, scope, descending, n) ==
    /\ Len(page.items) <= n
    /\ page.next # NoCursor => page.items # <<>>
    /\ \A i \in DOMAIN page.items :
           LET r == page.items[i]
           IN /\ r.session \in scope /\ 0 <= r.publication /\ r.publication <= page.boundary
              /\ i > 1 => IF descending THEN r.publication < page.items[i - 1].publication
                          ELSE page.items[i - 1].publication < r.publication
=============================================================================
