---------------------------- MODULE StoreReaders ----------------------------
(***************************************************************************)
(* Readers of a store that is being written and pruned: borrowed           *)
(* DatabaseReaders that walk the pages of a query                          *)
(* (persistence/_database.py), and the listing of the dashboard, which     *)
(* keeps pages and cursors of several filters (dashboard/_history.py).     *)
(***************************************************************************)
EXTENDS StoreWriters

CONSTANTS
    Walker,         \* callers that follow next_cursor from the first page
    MaxFilters,     \* MAX_FILTERS: how many pages, and filters, the listing keeps
    MaxPages        \* MAX_PAGES: how far a listing goes

ASSUME ReaderAssumption == MaxFilters \in Nat \ {0} /\ MaxPages \in Nat \ {0}

VARIABLES
    base,       \* the Database that the readers were borrowed from
    walk,       \* by walker: where it is and what it was given
    listing     \* the _HistorySource: its cursors, its pages, a response at hand

vars == <<writerVars, base, walk, listing>>

Init ==
    /\ WritersInit
    /\ base = [generation |-> 1, open |-> TRUE]
    /\ walk = [w \in Walker |-> [pc |-> "READY", cursor |-> NoCursor, page |-> <<>>, boundary |-> 0, got |-> <<>>,
                                 present |-> {}]]
    /\ listing = [cursors |-> <<>>, pages |-> <<>>, asked |-> <<>>, response |-> <<>>]

\* A reader belongs to the lifecycle it was borrowed in.
Granted == base = [generation |-> 1, open |-> TRUE]

Close ==
    /\ base.open /\ plan.closes
    /\ base' = [base EXCEPT !.open = FALSE]
    /\ UNCHANGED <<writerVars, walk, listing>>

Reopen ==
    /\ ~base.open /\ base.generation = 1
    /\ base' = [generation |-> 2, open |-> TRUE]
    /\ UNCHANGED <<writerVars, walk, listing>>

-----------------------------------------------------------------------------
(* Walks                                                                   *)

RowsOf(w) ==
    IF plan.walks[w].kind = "CONTEXTS" THEN ContextRows(disk, plan.walks[w].scope)
    ELSE SessionRows(disk, plan.walks[w].scope)

\* The lane answers with as many headers as the limits in items and bytes allow.
Serve(w) ==
    /\ w \in DOMAIN plan.walks /\ walk[w].pc = "READY" /\ Granted /\ disk.schema # "NONE"
    /\ \E n \in plan.sizes :
         LET page == Page(disk, RowsOf(w), walk[w].cursor, plan.walks[w].descending, n)
         IN walk' = [walk EXCEPT
                ![w].pc = IF ValidPage(page, plan.walks[w].scope, plan.walks[w].descending, n) THEN "SERVED" ELSE "INVALID",
                ![w].page = page,
                ![w].present = IF walk[w].cursor = NoCursor THEN {r.key : r \in RowsOf(w)} ELSE @]
    /\ UNCHANGED <<writerVars, base, listing>>

\* What arrives after the lifecycle has ended is not handed out.
Receive(w) ==
    /\ walk[w].pc = "SERVED"
    /\ LET page == walk[w].page
       IN walk' = [walk EXCEPT ![w].page = <<>>,
                   ![w].pc = IF ~Granted THEN "REFUSED" ELSE IF page.next = NoCursor THEN "DONE" ELSE "READY",
                   ![w].cursor = IF Granted THEN page.next ELSE @,
                   ![w].boundary = IF Granted THEN page.boundary ELSE @,
                   ![w].got = IF Granted THEN @ \o page.items ELSE @]
    /\ UNCHANGED <<writerVars, base, listing>>

-----------------------------------------------------------------------------
(* The listing of the dashboard                                            *)

Indexes(s, Test(_)) == {n \in DOMAIN s : Test(s[n])}

\* An OrderedDict: what was used last is at the end, the first goes first.
Kept(s, Same(_), entry) ==
    LET rest == SelectSeq(s, LAMBDA e : ~Same(e))
        all == Append(rest, entry)
    IN IF Len(all) > MaxFilters THEN Tail(all) ELSE all

PageOf(f, n) == Indexes(listing.pages, LAMBDA e : e.filter = f /\ e.page = n)

CursorsOf(f) ==
    LET known == Indexes(listing.cursors, LAMBDA e : e.filter = f)
    IN IF known = {} THEN (0 :> NoCursor) ELSE listing.cursors[CHOOSE n \in known : TRUE].at

\* A page that is young enough is shown again.
ShowCached(f, n) ==
    /\ Granted /\ listing.asked = <<>> /\ PageOf(f, n) # {}
    /\ LET entry == listing.pages[CHOOSE i \in PageOf(f, n) : TRUE]
       IN listing' = [listing EXCEPT !.pages = Kept(@, LAMBDA e : e = entry, entry)]
    /\ UNCHANGED <<writerVars, base, walk>>

\* Variant: only a head page that is read anew drops the pages after it.
Followed_Head(n, at, next) == n = 0

Followed(n, at, next) == n = 0 \/ (IF n + 1 \in DOMAIN at THEN at[n + 1] ELSE NoCursor) # next

\* The page is read.  A head page, or a page that no longer ends where it
\* did, takes with it the pages and cursors after it.
Query(f, n) ==
    /\ plan.lists /\ Granted /\ listing.asked = <<>> /\ disk.schema # "NONE"
    /\ n \in DOMAIN CursorsOf(f)
    /\ \E k \in plan.sizes :
         LET at == CursorsOf(f)
             response == Page(disk, ContextRows(disk, f), at[n], TRUE, k)
             drops == Followed(n, at, response.next)
             left == IF drops THEN Restrict(at, {m \in DOMAIN at : m <= n}) ELSE at
             next == IF response.next # NoCursor /\ n + 1 < MaxPages THEN ((n + 1) :> response.next) @@ left
                     ELSE Restrict(left, DOMAIN left \ {n + 1})
         IN /\ ValidPage(response, f, TRUE, k)
            /\ listing' = [listing EXCEPT
                !.asked = <<f, n>>, !.response = response,
                !.cursors = Kept(@, LAMBDA e : e.filter = f, [filter |-> f, at |-> next]),
                !.pages = IF drops THEN SelectSeq(@, LAMBDA e : ~(e.filter = f /\ e.page > n)) ELSE @]
    /\ UNCHANGED <<writerVars, base, walk>>

\* A page without a cursor is refused, but its filter is now the last one used.
Expire(f, n) ==
    /\ plan.lists /\ Granted /\ listing.asked = <<>> /\ n \notin DOMAIN CursorsOf(f)
    /\ listing' = [listing EXCEPT !.cursors = Kept(@, LAMBDA e : e.filter = f, [filter |-> f, at |-> CursorsOf(f)])]
    /\ UNCHANGED <<writerVars, base, walk>>

\* The sessions are read as well; then the page is kept, if the grant still holds.
Keep ==
    /\ listing.asked # <<>>
    /\ LET f == listing.asked[1]
           n == listing.asked[2]
           page == [filter |-> f, page |-> n, boundary |-> listing.response.boundary, stale |-> FALSE,
                    rows |-> listing.response.items, next |-> listing.response.next]
       IN listing' = [listing EXCEPT
              !.asked = <<>>, !.response = <<>>,
              !.pages = IF Granted THEN Kept(@, LAMBDA e : e.filter = f /\ e.page = n, page) ELSE @]
    /\ UNCHANGED <<writerVars, base, walk>>

\* The store does not answer: what is cached for this page is shown as stale.
Unavailable(f, n) ==
    /\ plan.lists /\ Granted /\ listing.asked = <<>> /\ faults < plan.faults
    /\ n \in DOMAIN CursorsOf(f)
    /\ LET cached == PageOf(f, n)
           stale == IF cached = {} THEN [filter |-> f, page |-> n, boundary |-> Never, stale |-> TRUE,
                                         rows |-> <<>>, next |-> NoCursor]
                    ELSE [listing.pages[CHOOSE i \in cached : TRUE] EXCEPT !.stale = TRUE]
       IN listing' = [listing EXCEPT
              !.cursors = Kept(@, LAMBDA e : e.filter = f, [filter |-> f, at |-> CursorsOf(f)]),
              !.pages = Kept(@, LAMBDA e : e.filter = f /\ e.page = n, stale)]
    /\ faults' = faults + 1
    /\ UNCHANGED <<plan, wall, disk, lane, base, walk>>

Next ==
    \/ WritersNext /\ UNCHANGED <<base, walk, listing>>
    \/ Close \/ Reopen
    \/ \E w \in Walker : Serve(w) \/ Receive(w)
    \/ \E f \in plan.filters, n \in 0..MaxPages - 1 :
           ShowCached(f, n) \/ Query(f, n) \/ Expire(f, n) \/ Unavailable(f, n)
    \/ Keep

Spec == Init /\ [][Next]_vars

-----------------------------------------------------------------------------
(* Properties                                                              *)

RowsNow(w) == IF plan.walks[w].kind = "CONTEXTS" THEN disk.contexts ELSE disk.sessions

\* A walk is given every row once, in order, and no page that the lane refuses: of what was there when it began
\* and still is, unchanged, nothing that it has passed was left out, whatever
\* was published, pruned or updated meanwhile.
WalkComplete ==
    \A w \in DOMAIN plan.walks :
        LET got == walk[w].got
            keys == [n \in DOMAIN got |-> got[n].key]
            rows == RowsNow(w)
            passed(p) == \/ walk[w].pc = "DONE"
                         \/ got # <<>> /\ IF plan.walks[w].descending THEN p >= got[Len(got)].publication
                                          ELSE p <= got[Len(got)].publication
        IN /\ walk[w].pc # "INVALID" /\ IsInjective(keys)
           /\ \A m, n \in DOMAIN got : m < n =>
                  (got[m].publication > got[n].publication) = plan.walks[w].descending
           /\ \A k \in walk[w].present \cap DOMAIN rows :
                  passed(rows[k].publication) /\ rows[k].publication <= walk[w].boundary => k \in Range(keys)

\* The pages that the listing keeps of one filter fit together: behind the
\* head they are of one reading of the store, and where one page follows
\* another nothing that is still stored lies between them.
PagesFit ==
    LET fresh == {listing.pages[n] : n \in Indexes(listing.pages, LAMBDA e : ~e.stale)}
    IN \A a, b \in fresh : a.filter = b.filter /\ a.page < b.page =>
           /\ a.page > 0 => a.boundary = b.boundary
           /\ b.page = a.page + 1 /\ a.boundary = b.boundary =>
                  /\ a.next # NoCursor
                  /\ \A k \in DOMAIN disk.contexts :
                         LET p == disk.contexts[k].publication
                         IN disk.contexts[k].session \in a.filter /\ p <= a.boundary =>
                                /\ p < a.next.last /\ (b.next = NoCursor \/ p >= b.next.last)
                                   => \E r \in Range(b.rows) : r.key = k /\ r.publication = p

\* What readers are given is complete: every walk, and every listing.
ReadersComplete == WalkComplete /\ PagesFit
=============================================================================
