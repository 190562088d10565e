--------------------------- MODULE TerminalHistory ---------------------------
(* The window of terminal summaries an engine keeps in memory                *)
(* (engine/terminal_history.py): finalizations are numbered in the order the  *)
(* registry retires them, the newest that fit are kept, and a reader pages    *)
(* through them by passing the cursor of one page to the next read.  A number *)
(* the window no longer holds - expired, too large, or of a context whose     *)
(* identity is unusual - is never returned: the page says that there is a gap.*)
(* The reader of this module is any holder of the grant; the dashboard is one *)
(* (Dashboard).                                                               *)
EXTENDS Naturals, FiniteSets, FiniteSetsExt

CONSTANTS
    WindowEntries,  \* _limit: the entries kept, 0 disables the window
    WindowBytes,    \* _max_bytes, in the unit of the entries' sizes
    EntryBytes      \* _MAX_ENTRY_BYTES, in the same unit

ASSUME WindowAssumption ==
    /\ WindowEntries \in Nat
    /\ WindowBytes \in Nat
    /\ EntryBytes \in Nat

VARIABLES
    window,     \* _entries: records [sequence, size, summary]
    latest,     \* _sequence: the finalizations numbered so far
    cursor,     \* the reader's cursor, the next_cursor of its last page
    told,       \* whether a page told the reader of a gap
    more,       \* has_more of its last page
    published,  \* history: every entry numbered, kept or not
    read        \* history: the entries the reader was given

windowVars == <<window, latest, published>>
readerVars == <<cursor, told, more, read>>
historyVars == <<windowVars, readerVars>>

Sequences(entries) == {entry.sequence : entry \in entries}

HistoryInit ==
    /\ window = {}
    /\ latest = 0
    /\ cursor = 0
    /\ told = FALSE
    /\ more = FALSE
    /\ published = {}
    /\ read = {}

(* The entries left when the oldest are dropped until the bounds are met.     *)
Newest(entries) ==
    {entry \in entries :
        LET kept == {other \in entries : other.sequence >= entry.sequence}
        IN  /\ Cardinality(kept) <= WindowEntries
            /\ MapThenSumSet(LAMBDA other : other.size, kept) <= WindowBytes}

(* publish(): every finalization takes a number; only an entry that is        *)
(* eligible and fits is kept, so a reader can tell that one is missing.       *)
PublishTerminal(summary, size, eligible) ==
    LET entry == [sequence |-> latest + 1, size |-> size, summary |-> summary]
        fits  == /\ WindowEntries > 0
                 /\ size <= EntryBytes
                 /\ size <= WindowBytes
    IN  /\ latest' = latest + 1
        /\ window' = IF ~eligible THEN window
                     ELSE Newest(window \union (IF fits THEN {entry} ELSE {}))
        /\ published' = published \union {entry}

-----------------------------------------------------------------------------
(* read(after, limit): the oldest entries after the cursor, at most `limit'.  *)
Selected(after, limit) ==
    LET newer == {entry \in window : entry.sequence > after}
    IN  {entry \in newer :
            Cardinality({older \in newer : older.sequence < entry.sequence})
                < limit}

Highest(numbers) == CHOOSE n \in numbers : \A m \in numbers : m <= n

(* Variant: every page moves the cursor to the end of the window.             *)
Page_SkipsRest(after, limit) ==
    LET selected == Selected(after, limit)
        reached  == {after} \union Sequences(selected)
    IN  [entries |-> selected,
         next    |-> latest,
         gap     |-> \/ \E entry \in selected : entry.sequence - 1 \notin reached
                     \/ Cardinality(selected) < limit /\ Highest(reached) < latest,
         more    |-> FALSE]

(* A page that is not full was read to the end of the window, so its cursor   *)
(* is the last number given; a full page may leave more to read.              *)
Page(after, limit) ==
    LET selected == Selected(after, limit)
        reached  == {after} \union Sequences(selected)
        full     == Cardinality(selected) = limit
        next     == IF full THEN Highest(reached) ELSE latest
    IN  [entries |-> selected,
         next    |-> next,
         gap     |-> \/ \E entry \in selected : entry.sequence - 1 \notin reached
                     \/ ~full /\ Highest(reached) < latest,
         more    |-> next < latest]

(* One page of the reader, which passes on the cursor it was given last.      *)
ReadPage(limit) ==
    LET page == Page(cursor, limit)
    IN  /\ cursor' = page.next
        /\ told' = (told \/ page.gap)
        /\ more' = page.more
        /\ read' = read \union page.entries

HistoryNext(Summaries, Sizes, Limits) ==
    \/ \E summary \in Summaries, size \in Sizes, eligible \in BOOLEAN :
          PublishTerminal(summary, size, eligible) /\ UNCHANGED readerVars
    \/ \E limit \in Limits : ReadPage(limit) /\ UNCHANGED windowVars

-----------------------------------------------------------------------------
(* No finalization escapes a reader without a word: as long as no page told   *)
(* of a gap, every number up to the cursor was read, with the summary it was  *)
(* published with, and no number was read that the cursor has not reached -   *)
(* whatever was dropped between two pages, however the bounds cut the pages.  *)
RecoveryCovers ==
    /\ cursor <= latest
    /\ read \subseteq published
    /\ \A entry \in read : entry.sequence <= cursor
    /\ told \/ \A n \in 1..cursor : \E entry \in read : entry.sequence = n
=============================================================================
